---- MODULE Spec2Model ----
(***************************************************************************)
(* State-machine model of the COMBSEC key codec, EmojiCombsecGenerator, of *)
(* src/ACTNEWWORLDODOR/emoji_combsec_generator.py.                         *)
(*                                                                         *)
(* A Python str is a sequence of Unicode code points (naturals), so that   *)
(* len(), split('-'), int(), str() and encode('utf-8') are computed as     *)
(* Python computes them.  A Python value that may be None is NoneVal or    *)
(* Some(v).  A call that may raise yields an outcome record with the       *)
(* field exc: "none" when it returned, the exception class otherwise.      *)
(***************************************************************************)
EXTENDS Integers, Sequences, FiniteSets, Bags, TLC

VARIABLES
  firm_id,          \* EmojiCombsecGenerator.firm_id
  base_seed,        \* EmojiCombsecGenerator.base_seed
  clock,            \* int(time.time())
  op,               \* the last call made
  args,             \* its arguments, with the clock and random values it consumed
  ret,              \* what it returned
  pc,               \* per thread: the place of the thread in the method it runs
  frame,            \* per thread: the arguments and local variables of that call
  active_sessions,  \* GraphQLResolvers.active_sessions
  used_random,      \* the values secrets.token_hex has returned to the resolvers
  issued,           \* the session keys GraphQLResolvers.generate_combsec_key returned
  retired,          \* the issued session keys refresh_combsec_key was called with
  effects,          \* the operations the resolvers carried out behind the authentication
  firm_partners,    \* PublicIPAlgorithmDistributor.firm_partners: partner id -> record
  partner_order,    \* the keys of firm_partners in the order the dict holds them
  urgent_update_queue, \* PublicIPAlgorithmDistributor.urgent_update_queue
  urgent_calls,     \* how many calls of send_urgent_update were made
  attempts,         \* the partners the last distribution called _transmit_to_partner
                    \* for, in the order of the calls
  tenths,           \* time.time(): the tenths of a second beyond clock
  commit_hash,      \* what 'git rev-parse HEAD' prints
  github_keys,      \* the keys the GitHubTimestampIntegrator has returned, in order
  command_file,     \* the file .mp4/loadmymainquantQXRworkflowcustomnow!: None
                    \* when absent, its content and st_mtime otherwise
  last_modified,    \* monitor_command_file: the local variable last_modified
  monitor_pc,       \* monitor_command_file: the place in the loop
  invocations,      \* how many calls of run_qxr_main were made
  executed,         \* the st_mtime values the monitor called execute_custom_workflow for
  unseen            \* whether the command file was written since the monitor's
                    \* last call of execute_custom_workflow

vars == <<firm_id, base_seed, clock, op, args, ret, pc, frame,
          active_sessions, used_random, issued, retired, effects,
          firm_partners, partner_order, urgent_update_queue, urgent_calls, attempts,
          tenths, commit_hash, github_keys,
          command_file, last_modified, monitor_pc, invocations, executed, unseen>>

\* the variables of the threads, of the resolvers and of the distributor
threads == <<pc, frame>>
resolver == <<active_sessions, used_random, issued, retired, effects>>
distribution == <<urgent_update_queue, urgent_calls, attempts>>
distributor == <<firm_partners, partner_order, distribution>>
\* the variables of the GitHub integrator and of the workflow loader
github == <<tenths, commit_hash, github_keys>>
monitor == <<last_modified, monitor_pc, executed, unseen>>
loader == <<command_file, invocations, monitor>>

\* the variables that a specification of sequential calls of the generator
\* leaves alone, and those the other specifications leave alone
others == <<threads, resolver, distributor, github, loader>>
beside_threads == <<resolver, distributor, github, loader>>
beside_resolver == <<threads, distributor, github, loader>>
beside_distributor == <<threads, resolver, github, loader>>
beside_github == <<threads, resolver, distributor, loader>>
beside_loader == <<threads, resolver, distributor, github>>

\* the empty dict, {}
EmptyDict == [k \in {} |-> {}]

ThreadsIdle == pc = <<>> /\ frame = <<>>
ResolverIdle ==
  /\ active_sessions = EmptyDict
  /\ used_random = {}
  /\ issued = {}
  /\ retired = {}
  /\ effects = {}
DistributorIdle ==
  /\ firm_partners = EmptyDict
  /\ partner_order = <<>>
  /\ urgent_update_queue = <<>>
  /\ urgent_calls = 0
  /\ attempts = <<>>
GithubIdle == tenths = 0 /\ commit_hash = <<>> /\ github_keys = <<>>
LoaderIdle ==
  /\ command_file = [none |-> TRUE]
  /\ last_modified = 0
  /\ monitor_pc = "idle"
  /\ invocations = 0
  /\ executed = <<>>
  /\ unseen = FALSE
OthersInit == ThreadsIdle /\ ResolverIdle /\ DistributorIdle /\ GithubIdle /\ LoaderIdle

----------------------------------------------------------------------------
(* Bounds of the model *)

\* the clock, int(time.time()), in the initial state
ClockStart == 9
\* how often the clock advances
MaxTicks == 1
\* the largest count passed to generate_key_batch
MaxBatch == 3
\* the largest number of '-'-separated fields of a key that is not 4 fields long
MaxFields == 5
\* the largest number of keys passed to export_key_data
MaxKeys == 2
\* the largest number of packages a partner receives
MaxReceived == 1

\* the clock values of the model
ClockValues == ClockStart..(ClockStart + MaxTicks)

----------------------------------------------------------------------------
(* Python values *)

NoneVal == [none |-> TRUE]
Some(v) == [none |-> FALSE, val |-> v]

\* '-' : the separator of the key's fields
Dash == 45
\* '_' : the separator inside the batch entropy f"batch_{i}_{...}"
Underscore == 95

Repeat(c, n) == [i \in 1..n |-> c]

IsDigit(c) == c \in 48..57

\* the characters str.strip() and int() treat as white space (ASCII)
IsSpace(c) == c \in {9, 10, 11, 12, 13, 32}

\* str.split(sep) for a one-character separator: never empty, "" gives [""]
RECURSIVE split(_, _)
split(s, sep) ==
  IF \A i \in 1..Len(s) : s[i] # sep
  THEN <<s>>
  ELSE LET i == CHOOSE k \in 1..Len(s) : s[k] = sep /\ \A j \in 1..(k - 1) : s[j] # sep
       IN  <<SubSeq(s, 1, i - 1)>> \o split(SubSeq(s, i + 1, Len(s)), sep)

\* the f-string "{a}-{b}-..." : the fields joined by '-'
RECURSIVE Join(_)
Join(fields) ==
  IF Len(fields) = 0 THEN <<>>
  ELSE IF Len(fields) = 1 THEN fields[1]
  ELSE fields[1] \o <<Dash>> \o Join(Tail(fields))

\* str(n) of a non-negative int: its decimal digits
RECURSIVE NatStr(_)
NatStr(n) == IF n < 10 THEN <<48 + n>> ELSE NatStr(n \div 10) \o <<48 + (n % 10)>>

\* faulty variant of str_int: the sign of a negative int is not written
str_int_unsigned(n) == NatStr(IF n < 0 THEN 0 - n ELSE n)

\* str(n) of an int: a '-' sign before the digits of a negative one
str_int(n) == IF n < 0 THEN <<Dash>> \o NatStr(0 - n) ELSE NatStr(n)

\* faulty variant of upper: the digest is left as hexdigest() writes it
upper_omitted(s) == s

\* str.upper() on the characters a digest can hold (ASCII letters)
upper(s) == [i \in 1..Len(s) |-> IF s[i] \in 97..122 THEN s[i] - 32 ELSE s[i]]

\* the UTF-8 encoding of one code point
Utf8Char(c) ==
  IF c < 128 THEN <<c>>
  ELSE IF c < 2048 THEN <<192 + (c \div 64), 128 + (c % 64)>>
  ELSE IF c < 65536
       THEN <<224 + (c \div 4096), 128 + ((c \div 64) % 64), 128 + (c % 64)>>
       ELSE <<240 + (c \div 262144), 128 + ((c \div 4096) % 64),
              128 + ((c \div 64) % 64), 128 + (c % 64)>>

\* str.encode('utf-8'): the encodings of the code points, in order; a str of
\* ASCII characters is its own encoding, any other is encoded by halves
RECURSIVE encode_utf8(_)
encode_utf8(s) ==
  IF \A i \in 1..Len(s) : s[i] < 128 THEN s
  ELSE IF Len(s) = 1 THEN Utf8Char(s[1])
  ELSE LET m == Len(s) \div 2
       IN  encode_utf8(SubSeq(s, 1, m)) \o encode_utf8(SubSeq(s, m + 1, Len(s)))

\* the lowercase hexadecimal digits 0..9 a..f
HexLower == <<48, 49, 50, 51, 52, 53, 54, 55, 56, 57, 97, 98, 99, 100, 101, 102>>
HexUpperChars == (48..57) \cup (65..70)

\* hashlib.sha256(bytes).hexdigest(): 64 lowercase hexadecimal digits that are
\* a function of the bytes.  SHA-256 itself is stood in for by a weighted sum
\* of the bytes (the sum of a bag's counts), of which the first four digits are
\* the hexadecimal numeral: two inputs that differ in one byte get different
\* digests.  No claim rests on the digits' values.
Absorb(bytes) ==
  BagCardinality([i \in 1..Len(bytes) |-> (bytes[i] + 1) * (((i * i) % 251) + 7)]) % 65521

HexDigits(h) ==
  [i \in 1..64 |->
     HexLower[(IF i <= 4 THEN (h \div (16 ^ (4 - i))) % 16
               ELSE ((h \div (1 + (i % 5))) + i * ((h % 13) + 1)) % 16) + 1]]

sha256_hexdigest(bytes) ==
  CHOOSE d \in {HexDigits(h) : h \in {Absorb(bytes)}} : TRUE

----------------------------------------------------------------------------
(* Class constants of EmojiCombsecGenerator *)

\* GLOBE_EMOJI as the source file holds it: the four code points
\* U+F8FF U+00FC U+00E5 U+00EA
GLOBE_EMOJI == <<63743, 252, 229, 234>>
\* UNICODE_CODEPOINT = "U+1F310"
UNICODE_CODEPOINT == <<85, 43, 49, 70, 51, 49, 48>>
\* HEX_VALUE = 0x1F310
HEX_VALUE == 127760
\* UTF8_BYTES = b'\xf0\x9f\x8c\x90'
UTF8_BYTES == <<240, 159, 140, 144>>

----------------------------------------------------------------------------
(* Key generation *)

\* _generate_base_seed: SHA-256 of the emoji bytes followed by the firm id
_generate_base_seed(firm) == sha256_hexdigest(UTF8_BYTES \o encode_utf8(firm))

\* faulty variant of UsedTimestamp: "if not timestamp", which takes 0 for absent
UsedTimestampFalsy(timestamp, now) ==
  IF timestamp.none \/ timestamp.val = 0 THEN now ELSE timestamp.val

\* the timestamp generate_combsec_key uses: the clock when the argument is None
UsedTimestamp(timestamp, now) == IF timestamp.none THEN now ELSE timestamp.val

\* (additional_entropy or secrets.token_hex(8)): None and "" are both falsy
UsedEntropy(additional_entropy, rnd) ==
  IF additional_entropy.none \/ additional_entropy.val = <<>>
  THEN rnd
  ELSE additional_entropy.val

\* hexdigest()[:16] of the joined components
combsec_hash(firm, seed, ts, entropy) ==
  LET combined_string == seed \o str_int(ts) \o firm \o str_int(HEX_VALUE) \o entropy
  IN  SubSeq(sha256_hexdigest(encode_utf8(combined_string)), 1, 16)

\* generate_combsec_key(timestamp, additional_entropy), with the clock value
\* now and the value rnd that secrets.token_hex(8) would return
generate_combsec_key(firm, seed, timestamp, additional_entropy, now, rnd) ==
  LET ts      == UsedTimestamp(timestamp, now)
      entropy == UsedEntropy(additional_entropy, rnd)
  IN  Join(<<GLOBE_EMOJI, upper(combsec_hash(firm, seed, ts, entropy)), str_int(ts), firm>>)

----------------------------------------------------------------------------
(* Key validation *)

RECURSIVE lstrip(_)
lstrip(s) == IF s # <<>> /\ IsSpace(Head(s)) THEN lstrip(Tail(s)) ELSE s

RECURSIVE rstrip(_)
rstrip(s) ==
  IF s # <<>> /\ IsSpace(s[Len(s)]) THEN rstrip(SubSeq(s, 1, Len(s) - 1)) ELSE s

RECURSIVE DropZeros(_)
DropZeros(d) == IF Len(d) > 1 /\ Head(d) = 48 THEN DropZeros(Tail(d)) ELSE d

\* the value of a sequence of decimal digits
RECURSIVE DigitsValue(_)
DigitsValue(d) ==
  IF d = <<>> THEN 0 ELSE 10 * DigitsValue(SubSeq(d, 1, Len(d) - 1)) + (d[Len(d)] - 48)

\* int(s) of a str: white space around, an optional sign, then decimal digits
\* with single underscores between them; anything else raises ValueError.
\* The int is given by its sign and its digits (without leading zeros), since
\* a Python int has no bound.
int_str(s) ==
  LET t    == rstrip(lstrip(s))
      sgn  == t # <<>> /\ Head(t) \in {43, Dash}
      body == IF sgn THEN Tail(t) ELSE t
      ok   == /\ body # <<>>
              /\ \A i \in 1..Len(body) :
                   \/ IsDigit(body[i])
                   \/ /\ body[i] = Underscore
                      /\ 1 < i
                      /\ i < Len(body)
                      /\ IsDigit(body[i - 1])
                      /\ IsDigit(body[i + 1])
      digits == DropZeros(SelectSeq(body, IsDigit))
  IN  IF ok
      THEN [exc |-> "none", neg |-> (Head(t) = Dash /\ digits # <<48>>), digits |-> digits]
      ELSE [exc |-> "ValueError", text |-> "invalid literal for int() with base 10"]

\* a < b for two naturals given by their digits (no leading zeros)
RECURSIVE DecLess(_, _)
DecLess(a, b) ==
  IF Len(a) # Len(b) THEN Len(a) < Len(b)
  ELSE IF a = <<>> THEN FALSE
  ELSE IF Head(a) # Head(b) THEN Head(a) < Head(b)
  ELSE DecLess(Tail(a), Tail(b))

\* the digits of 253402300799, the last second of year 9999 (UTC)
LastSecondOfYear9999 == <<50, 53, 51, 52, 48, 50, 51, 48, 48, 55, 57, 57>>
\* the digits of 67768036191676799, the last second localtime() can convert
LastLocaltimeSecond ==
  <<54, 55, 55, 54, 56, 48, 51, 54, 49, 57, 49, 54, 55, 54, 55, 57, 57>>
\* the digits of 2**63 - 1, the largest time_t
LargestTimeT ==
  <<57, 50, 50, 51, 51, 55, 50, 48, 51, 54, 56, 53, 52, 55, 55, 53, 56, 48, 55>>

\* datetime.fromtimestamp(n) for an int n >= 0 (a field of a key holds no '-',
\* so validation never passes a negative one): it returns up to year 9999,
\* raises ValueError (year out of range) up to what localtime() converts,
\* OSError beyond that and OverflowError beyond time_t.
fromtimestamp(n) ==
  IF ~DecLess(LastSecondOfYear9999, n.digits)
  THEN [exc |-> "none"]
  ELSE IF ~DecLess(LastLocaltimeSecond, n.digits)
  THEN [exc |-> "ValueError", text |-> "year is out of range"]
  ELSE IF ~DecLess(LargestTimeT, n.digits)
  THEN [exc |-> "OSError", text |-> "[Errno 75] Value too large for defined data type"]
  ELSE [exc |-> "OverflowError", text |-> "timestamp out of range for platform time_t"]

\* key_datetime.isoformat(): the text is a function of the timestamp alone
isoformat(timestamp) == <<"isoformat", timestamp>>

\* faulty variant of FormatOk: "len(parts) < 4", which lets longer keys through
FormatOkAtLeast(parts) == Len(parts) >= 4

\* len(parts) != 4 is the format error
FormatOk(parts) == Len(parts) = 4

\* faulty variant of MarkerOk: "emoji_part not in self.GLOBE_EMOJI", a substring test
MarkerOkSubstring(emoji_part) ==
  \E i \in 0..Len(GLOBE_EMOJI) :
    /\ i + Len(emoji_part) <= Len(GLOBE_EMOJI)
    /\ emoji_part = SubSeq(GLOBE_EMOJI, i + 1, i + Len(emoji_part))

\* faulty variant of MarkerOk: the check of the first field is left out
MarkerOkOmitted(emoji_part) == TRUE

\* emoji_part != self.GLOBE_EMOJI is the marker error
MarkerOk(emoji_part) == emoji_part = GLOBE_EMOJI

\* faulty variant of HexKeyOk: "len(hex_key) < 16", which lets longer digests through
HexKeyOkAtLeast(hex_key) == Len(hex_key) >= 16

\* faulty variant of HexKeyOk: the digest must also be uppercase hexadecimal digits
HexKeyOkHexadecimal(hex_key) ==
  Len(hex_key) = 16 /\ \A i \in 1..Len(hex_key) : hex_key[i] \in HexUpperChars

\* len(hex_key) != 16 is the digest length error
HexKeyOk(hex_key) == Len(hex_key) = 16

\* faulty variant of CaughtByExceptValueError: "except TypeError"
CaughtByExceptTypeError == {"TypeError"}

\* the exception classes the inner "except ValueError" catches
CaughtByExceptValueError == {"ValueError"}

\* faulty variant of CaughtByExceptException: "except ValueError"
CaughtByOuterExceptValueError == {"ValueError"}

\* the exception classes the outer "except Exception" catches
CaughtByExceptException ==
  {"AttributeError", "TypeError", "ValueError", "OSError", "OverflowError"}

\* the two statements of the inner try block: int(timestamp_str), then
\* datetime.fromtimestamp(timestamp)
parse_timestamp(timestamp_str) ==
  LET parsed == int_str(timestamp_str) IN
  IF parsed.exc # "none" THEN parsed
  ELSE LET converted == fromtimestamp(parsed) IN
       IF converted.exc # "none" THEN converted
       ELSE [exc |-> "none", timestamp |-> DigitsValue(parsed.digits)]

\* faulty variant of ValidResult: "firm_id": self.firm_id, the codec's own identifier
ValidResultOwnFirm(emoji_part, hex_key, timestamp, firm) ==
  [valid             |-> TRUE,
   emoji             |-> emoji_part,
   hex_key           |-> hex_key,
   timestamp         |-> timestamp,
   datetime          |-> isoformat(timestamp),
   firm_id           |-> firm_id,
   unicode_codepoint |-> UNICODE_CODEPOINT]

\* the dictionary returned for a key that passed every check
ValidResult(emoji_part, hex_key, timestamp, firm) ==
  [valid             |-> TRUE,
   emoji             |-> emoji_part,
   hex_key           |-> hex_key,
   timestamp         |-> timestamp,
   datetime          |-> isoformat(timestamp),
   firm_id           |-> firm,
   unicode_codepoint |-> UNICODE_CODEPOINT]

Returned(value) == [exc |-> "none", value |-> value]

\* faulty variant of validate_try: the length of the hex key is tested before
\* the emoji
validate_try_digest_first(key) ==
  IF key.none
  THEN [exc |-> "AttributeError", text |-> "'NoneType' object has no attribute 'split'"]
  ELSE
  LET parts == split(key.val, Dash) IN
  IF ~FormatOk(parts)
  THEN Returned([valid |-> FALSE, error |-> "Invalid key format"])
  ELSE IF Len(parts) # 4
  THEN [exc |-> "ValueError", text |-> "wrong number of values to unpack"]
  ELSE IF ~HexKeyOk(parts[2])
  THEN Returned([valid |-> FALSE, error |-> "Invalid hex key length"])
  ELSE IF ~MarkerOk(parts[1])
  THEN Returned([valid |-> FALSE, error |-> "Invalid emoji component"])
  ELSE
  LET t == parse_timestamp(parts[3]) IN
  IF t.exc \in CaughtByExceptValueError
  THEN Returned([valid |-> FALSE, error |-> "Invalid timestamp"])
  ELSE IF t.exc # "none"
  THEN t
  ELSE Returned(ValidResult(parts[1], parts[2], t.timestamp, parts[4]))

\* the body of the outer try block of validate_combsec_key: what it returns,
\* or the exception that leaves it
validate_try(key) ==
  IF key.none
  THEN [exc |-> "AttributeError", text |-> "'NoneType' object has no attribute 'split'"]
  ELSE
  LET parts == split(key.val, Dash) IN
  IF ~FormatOk(parts)
  THEN Returned([valid |-> FALSE, error |-> "Invalid key format"])
  ELSE IF Len(parts) # 4
  THEN [exc |-> "ValueError", text |-> "wrong number of values to unpack"]
  ELSE IF ~MarkerOk(parts[1])
  THEN Returned([valid |-> FALSE, error |-> "Invalid emoji component"])
  ELSE IF ~HexKeyOk(parts[2])
  THEN Returned([valid |-> FALSE, error |-> "Invalid hex key length"])
  ELSE
  LET t == parse_timestamp(parts[3]) IN
  IF t.exc \in CaughtByExceptValueError
  THEN Returned([valid |-> FALSE, error |-> "Invalid timestamp"])
  ELSE IF t.exc # "none"
  THEN t
  ELSE Returned(ValidResult(parts[1], parts[2], t.timestamp, parts[4]))

\* validate_combsec_key(key): the outer try block and its "except Exception"
validate_combsec_key(key) ==
  LET r == validate_try(key) IN
  IF r.exc \in CaughtByExceptException
  THEN Returned([valid |-> FALSE, error |-> "Parsing error: " \o r.text])
  ELSE r

\* f"batch_{i}_{secrets.token_hex(4)}" : the entropy of the i-th key of a batch
batch_entropy(i, rnd) == <<98, 97, 116, 99, 104, Underscore>> \o str_int(i) \o <<Underscore>> \o rnd

\* faulty variant of generate_key_batch: every key gets base_time and the entropy
\* secrets.token_hex(4) alone
generate_key_batch_same(firm, seed, count, now, rnds) ==
  [k \in 1..(IF count > 0 THEN count ELSE 0) |->
     generate_combsec_key(firm, seed, Some(now), Some(rnds[k]), now, <<>>)]

\* faulty variant of generate_key_batch: "for i in range(1, count + 1)", which
\* starts the timestamps one second late
generate_key_batch_from1(firm, seed, count, now, rnds) ==
  [k \in 1..(IF count > 0 THEN count ELSE 0) |->
     generate_combsec_key(firm, seed, Some(now + k), Some(batch_entropy(k, rnds[k])), now, <<>>)]

\* generate_key_batch(count), with the clock value now read once and the
\* values rnds[i + 1] that secrets.token_hex(4) returns in iteration i;
\* range(count) is empty for count <= 0
generate_key_batch(firm, seed, count, now, rnds) ==
  LET base_time == now
      n         == IF count > 0 THEN count ELSE 0
  IN  [k \in 1..n |->
         LET i         == k - 1
             timestamp == base_time + i
             entropy   == batch_entropy(i, rnds[k])
         IN  generate_combsec_key(firm, seed, Some(timestamp), Some(entropy), now, <<>>)]

\* faulty variant of export_key_data: only the keys that validate are exported
export_key_data_valid_only(firm, keys, now) ==
  LET IsValid(key) == validate_combsec_key(key).value.valid
      kept == SelectSeq(keys, IsValid)
  IN  Returned([system               |-> "ACTNEWWORLDODOR_COMBSEC",
                base_emoji           |-> GLOBE_EMOJI,
                unicode_codepoint    |-> UNICODE_CODEPOINT,
                firm_id              |-> firm,
                generation_timestamp |-> isoformat(now),
                total_keys           |-> Len(kept),
                keys                 |-> [i \in 1..Len(kept) |->
                                            [key |-> kept[i],
                                             validation |-> validate_combsec_key(kept[i]).value]]])

\* export_key_data(keys), with the value now of the clock datetime.now() reads;
\* keys is a list whose elements are strings or None
export_key_data(firm, keys, now) ==
  Returned([system               |-> "ACTNEWWORLDODOR_COMBSEC",
            base_emoji           |-> GLOBE_EMOJI,
            unicode_codepoint    |-> UNICODE_CODEPOINT,
            firm_id              |-> firm,
            generation_timestamp |-> isoformat(now),
            total_keys           |-> Len(keys),
            keys                 |-> [i \in 1..Len(keys) |->
                                        [key |-> keys[i],
                                         validation |-> validate_combsec_key(keys[i]).value]]])

\* faulty variant of generate_combsec_key_u1f310: "generator.generate_combsec_key()",
\* which drops the timestamp
generate_combsec_key_u1f310_no_timestamp(firm, timestamp, now, rnd) ==
  generate_combsec_key(firm, _generate_base_seed(firm), NoneVal, NoneVal, now, rnd)

\* the module's function generate_combsec_key_u1f310(firm_id, timestamp): a
\* generator is constructed for the request and asked for a key
generate_combsec_key_u1f310(firm, timestamp, now, rnd) ==
  LET generator == [firm_id |-> firm, base_seed |-> _generate_base_seed(firm)]
  IN  generate_combsec_key(generator.firm_id, generator.base_seed, timestamp, NoneVal, now, rnd)

----------------------------------------------------------------------------
(* The inputs the model draws *)

\* the firm ids a generator is constructed with: "", "F", "A-B"
FirmIds == {<<>>, <<70>>, <<65, Dash, 66>>}

\* the timestamp argument of generate_combsec_key
TimestampArgs == {NoneVal} \cup {Some(t) : t \in {0 - 5, 0, 12}}

\* the additional_entropy argument: None, "", "e"
EntropyArgs == {NoneVal, Some(<<>>), Some(<<101>>)}

\* values of secrets.token_hex(8): 16 lowercase hexadecimal digits
TokenHex8 == {Repeat(97, 16), Repeat(49, 16)}

\* values of secrets.token_hex(4): 8 lowercase hexadecimal digits
TokenHex4 == {Repeat(97, 8), Repeat(49, 8)}

\* first fields: the marker, U+1F310, U+1F680, ""
MarkerFields == {GLOBE_EMOJI, <<127760>>, <<128640>>, <<>>}

\* second fields: 16 times 'A', 16 times 'g', 16 times U+1F310, 15 and 17
\* times 'A', ""
DigestFields ==
  {Repeat(65, 16), Repeat(103, 16), Repeat(127760, 16), Repeat(65, 15), Repeat(65, 17), <<>>}

\* third fields: "7", "0", "07", "+5", " 7 ", "1_0", "1__0", "x", "7x", "",
\* 13 times '1', 18 times '1', 20 times '1'
TimestampFields ==
  {<<55>>, <<48>>, <<48, 55>>, <<43, 53>>, <<32, 55, 32>>, <<49, Underscore, 48>>,
   <<49, Underscore, Underscore, 48>>, <<120>>, <<55, 120>>, <<>>,
   Repeat(49, 13), Repeat(49, 18), Repeat(49, 20)}

\* fourth fields: "", "F"
FirmFields == {<<>>, <<70>>}

\* the fields of the keys that do not have 4 fields
OtherFields == {GLOBE_EMOJI, Repeat(65, 16), <<55>>, <<>>}

FieldTuples ==
  (MarkerFields \X DigestFields \X TimestampFields \X FirmFields)
  \cup UNION {[1..n -> OtherFields] : n \in (1..MaxFields) \ {4}}

\* the keys passed to validate_combsec_key
\* "not-a-valid-key"
NotAValidKey == <<110, 111, 116, Dash, 97, Dash, 118, 97, 108, 105, 100, Dash, 107, 101, 121>>

KeyInputs == {Join(f) : f \in FieldTuples} \cup {NotAValidKey}

----------------------------------------------------------------------------
(* The state machine *)

\* EmojiCombsecGenerator(firm_id): __init__ sets firm_id and base_seed
Init ==
  /\ firm_id \in FirmIds
  /\ base_seed = _generate_base_seed(firm_id)
  /\ clock = ClockStart
  /\ op = "init"
  /\ args = NoneVal
  /\ ret = NoneVal
  /\ OthersInit

\* time.time() advances
Tick ==
  /\ clock < ClockStart + MaxTicks
  /\ clock' = clock + 1
  /\ UNCHANGED <<firm_id, base_seed, op, args, ret>>
  /\ UNCHANGED others

\* what secrets.token_hex(8) may return to a call: it is called only when
\* additional_entropy is None or "" (the right operand of "or")
TokenHex8Draws(additional_entropy) ==
  IF additional_entropy.none \/ additional_entropy.val = <<>> THEN TokenHex8 ELSE {<<>>}

\* a call generate_combsec_key(timestamp, additional_entropy)
Generate ==
  \E timestamp \in TimestampArgs, additional_entropy \in EntropyArgs :
    \E rnd \in TokenHex8Draws(additional_entropy) :
      /\ op' = "generate"
      /\ args' = [timestamp |-> timestamp, additional_entropy |-> additional_entropy,
                  now |-> clock, rnd |-> rnd]
      /\ ret' = generate_combsec_key(firm_id, base_seed, timestamp, additional_entropy,
                                     clock, rnd)
      /\ UNCHANGED <<firm_id, base_seed, clock>>
      /\ UNCHANGED others

\* a call validate_combsec_key(key) on the key generate_combsec_key returned
ValidateIssued ==
  /\ op = "generate"
  /\ op' = "validate"
  /\ args' = [key |-> Some(ret), issued |-> Some(args)]
  /\ ret' = validate_combsec_key(Some(ret))
  /\ UNCHANGED <<firm_id, base_seed, clock>>
  /\ UNCHANGED others

\* a call generate_key_batch(count)
GenerateBatch ==
  \E count \in (0 - 1)..MaxBatch :
    \E rnds \in [1..(IF count > 0 THEN count ELSE 0) -> TokenHex4] :
      /\ op' = "batch"
      /\ args' = [count |-> count, now |-> clock, rnds |-> rnds]
      /\ ret' = generate_key_batch(firm_id, base_seed, count, clock, rnds)
      /\ UNCHANGED <<firm_id, base_seed, clock>>
      /\ UNCHANGED others

Next == Tick \/ Generate \/ ValidateIssued \/ GenerateBatch

Spec == Init /\ [][Next]_vars

----------------------------------------------------------------------------
(* validate_combsec_key as a function of its argument: the initial state     *)
(* draws the argument, a key from outside or None, and the one action is the *)
(* call.                                                                     *)

InitValidate ==
  /\ firm_id \in FirmIds
  /\ base_seed = _generate_base_seed(firm_id)
  /\ clock = ClockStart
  /\ op = "call"
  /\ args \in {[key |-> key, issued |-> NoneVal] :
                 key \in {Some(k) : k \in KeyInputs} \cup {NoneVal}}
  /\ ret = NoneVal
  /\ OthersInit

\* a call validate_combsec_key(key) on a key from outside, or on None
ValidateInput ==
  /\ op = "call"
  /\ op' = "validate"
  /\ ret' = validate_combsec_key(args.key)
  /\ UNCHANGED <<firm_id, base_seed, clock, args>>
  /\ UNCHANGED others

NextValidate == ValidateInput

SpecValidate == InitValidate /\ [][NextValidate]_vars

----------------------------------------------------------------------------
(* export_key_data as a function of its argument: the initial state draws    *)
(* the list of keys and the one action is the call.                          *)

\* the keys passed to export_key_data: a well-formed key, a key with another
\* emoji, "A-7", a key whose timestamp is "x", a key whose timestamp is beyond
\* year 9999, and None
ExportedKeys ==
  {Some(Join(<<GLOBE_EMOJI, Repeat(65, 16), <<55>>, <<70>>>>)),
   Some(Join(<<(<<128640>>), Repeat(65, 16), <<55>>, <<70>>>>)),
   Some(<<65, Dash, 55>>),
   Some(Join(<<GLOBE_EMOJI, Repeat(65, 16), <<120>>, <<70>>>>)),
   Some(Join(<<GLOBE_EMOJI, Repeat(65, 16), Repeat(49, 13), <<>>>>)),
   NoneVal}

KeyLists == UNION {[1..n -> ExportedKeys] : n \in 0..MaxKeys}

InitExport ==
  /\ firm_id \in FirmIds
  /\ base_seed = _generate_base_seed(firm_id)
  /\ clock = ClockStart
  /\ op = "call"
  /\ args \in {[keys |-> keys] : keys \in KeyLists}
  /\ ret = NoneVal
  /\ OthersInit

\* a call export_key_data(keys)
ExportKeys ==
  /\ op = "call"
  /\ op' = "export"
  /\ ret' = export_key_data(firm_id, args.keys, clock)
  /\ UNCHANGED <<firm_id, base_seed, clock, args>>
  /\ UNCHANGED others

NextExport == ExportKeys

SpecExport == InitExport /\ [][NextExport]_vars

----------------------------------------------------------------------------
(* Calls of several threads on one generator. A thread runs one method at a  *)
(* time; a step of it holds at most one access to what the threads share:    *)
(* the instance, the clock and the random source.                            *)

Threads == {1, 2}

\* the frame of a thread that runs no method: the call, the clock value and
\* the random values the call consumed, and the local variables
NoFrame ==
  [call |-> NoneVal, now |-> NoneVal, rnds |-> <<>>, timestamp |-> NoneVal,
   combsec_hash |-> NoneVal, keys |-> <<>>, result |-> NoneVal]

\* the calls the threads make
ThreadCalls ==
  {[name |-> "generate", timestamp |-> t, additional_entropy |-> e] :
     t \in {NoneVal, Some(0)}, e \in {NoneVal, Some(<<101>>)}}
  \cup {[name |-> "validate", key |-> k] :
          k \in {Some(Join(<<GLOBE_EMOJI, Repeat(65, 16), <<55>>, <<70>>>>)), Some(<<65, Dash, 55>>)}}
  \cup {[name |-> "batch", count |-> c] : c \in {0, 2}}
  \cup {[name |-> "export", keys |-> ks] :
          ks \in {<<>>, <<Some(<<65, Dash, 55>>),
                          Some(Join(<<GLOBE_EMOJI, Repeat(65, 16), <<55>>, <<70>>>>))>>}}

\* the first statement of each method
Entry(name) ==
  CASE name = "generate" -> "gen_clock"
    [] name = "validate" -> "validate"
    [] name = "batch"    -> "batch_clock"
    [] name = "export"   -> "export_start"

\* faulty variant of SetLocal: the variable is kept on the instance
\* ("self.timestamp = ..."), which all threads share
SetLocalOnInstance(fr, t, name, v) ==
  [u \in DOMAIN fr |-> [fr[u] EXCEPT ![name] = v]]

\* an assignment to a local variable of the call thread t runs: every call
\* has its own
SetLocal(fr, t, name, v) == [fr EXCEPT ![t][name] = v]

InitThreads ==
  /\ firm_id \in FirmIds
  /\ base_seed = _generate_base_seed(firm_id)
  /\ clock = ClockStart
  /\ op = "init"
  /\ args = NoneVal
  /\ ret = NoneVal
  /\ pc = [t \in Threads |-> "idle"]
  /\ frame = [t \in Threads |-> NoFrame]
  /\ ResolverIdle
  /\ DistributorIdle
  /\ GithubIdle
  /\ LoaderIdle

\* thread t calls a method: the parameters are bound
Call(t) ==
  /\ pc[t] = "idle"
  /\ \E c \in ThreadCalls :
       /\ frame' = [frame EXCEPT ![t] =
                      [NoFrame EXCEPT !.call = Some(c),
                                      !.timestamp = IF c.name = "generate"
                                                    THEN c.timestamp ELSE NoneVal]]
       /\ pc' = [pc EXCEPT ![t] = Entry(c.name)]
  /\ UNCHANGED <<firm_id, base_seed, clock, op, args, ret>>
  /\ UNCHANGED beside_threads

\* generate_combsec_key: "if timestamp is None: timestamp = int(time.time())"
GenClock(t) ==
  /\ pc[t] = "gen_clock"
  /\ frame' = IF frame[t].timestamp.none
              THEN SetLocal([frame EXCEPT ![t].now = Some(clock)], t, "timestamp", Some(clock))
              ELSE frame
  /\ pc' = [pc EXCEPT ![t] = "gen_hash"]
  /\ UNCHANGED <<firm_id, base_seed, clock, op, args, ret>>
  /\ UNCHANGED beside_threads

\* generate_combsec_key: the components, with the random value when the
\* entropy is absent, and their hash
GenHash(t) ==
  /\ pc[t] = "gen_hash"
  /\ LET c == frame[t].call.val
     IN  \E rnd \in TokenHex8Draws(c.additional_entropy) :
           frame' = [frame EXCEPT
                       ![t].rnds = <<rnd>>,
                       ![t].combsec_hash =
                          Some(combsec_hash(firm_id, base_seed, frame[t].timestamp.val,
                                            UsedEntropy(c.additional_entropy, rnd)))]
  /\ pc' = [pc EXCEPT ![t] = "gen_key"]
  /\ UNCHANGED <<firm_id, base_seed, clock, op, args, ret>>
  /\ UNCHANGED beside_threads

\* generate_combsec_key: the key is formatted and returned
GenKey(t) ==
  /\ pc[t] = "gen_key"
  /\ frame' = [frame EXCEPT ![t].result =
                 Some(Join(<<GLOBE_EMOJI, upper(frame[t].combsec_hash.val),
                             str_int(frame[t].timestamp.val), firm_id>>))]
  /\ pc' = [pc EXCEPT ![t] = "returned"]
  /\ UNCHANGED <<firm_id, base_seed, clock, op, args, ret>>
  /\ UNCHANGED beside_threads

\* validate_combsec_key: it reads its argument and class constants only
ValidateCall(t) ==
  /\ pc[t] = "validate"
  /\ frame' = [frame EXCEPT ![t].result = Some(validate_combsec_key(frame[t].call.val.key))]
  /\ pc' = [pc EXCEPT ![t] = "returned"]
  /\ UNCHANGED <<firm_id, base_seed, clock, op, args, ret>>
  /\ UNCHANGED beside_threads

\* generate_key_batch: "keys = []; base_time = int(time.time())"
BatchClock(t) ==
  /\ pc[t] = "batch_clock"
  /\ frame' = [frame EXCEPT ![t].now = Some(clock), ![t].keys = <<>>]
  /\ pc' = [pc EXCEPT ![t] = "batch_loop"]
  /\ UNCHANGED <<firm_id, base_seed, clock, op, args, ret>>
  /\ UNCHANGED beside_threads

\* generate_key_batch: one iteration of the loop
BatchIter(t) ==
  /\ pc[t] = "batch_loop"
  /\ Len(frame[t].keys) < frame[t].call.val.count
  /\ \E rnd \in TokenHex4 :
       LET i         == Len(frame[t].keys)
           timestamp == frame[t].now.val + i
           entropy   == batch_entropy(i, rnd)
           key       == generate_combsec_key(firm_id, base_seed, Some(timestamp),
                                             Some(entropy), clock, <<>>)
       IN  frame' = [frame EXCEPT ![t].rnds = Append(@, rnd), ![t].keys = Append(@, key)]
  /\ UNCHANGED <<firm_id, base_seed, clock, op, args, ret, pc>>
  /\ UNCHANGED beside_threads

\* generate_key_batch: "return keys"
BatchReturn(t) ==
  /\ pc[t] = "batch_loop"
  /\ Len(frame[t].keys) >= frame[t].call.val.count
  /\ frame' = [frame EXCEPT ![t].result = Some(frame[t].keys)]
  /\ pc' = [pc EXCEPT ![t] = "returned"]
  /\ UNCHANGED <<firm_id, base_seed, clock, op, args, ret>>
  /\ UNCHANGED beside_threads

\* export_key_data: export_data is built, datetime.now() is read
ExportStart(t) ==
  /\ pc[t] = "export_start"
  /\ frame' = [frame EXCEPT ![t].now = Some(clock), ![t].keys = <<>>]
  /\ pc' = [pc EXCEPT ![t] = "export_loop"]
  /\ UNCHANGED <<firm_id, base_seed, clock, op, args, ret>>
  /\ UNCHANGED beside_threads

\* export_key_data: one iteration of the loop
ExportIter(t) ==
  /\ pc[t] = "export_loop"
  /\ Len(frame[t].keys) < Len(frame[t].call.val.keys)
  /\ LET key == frame[t].call.val.keys[Len(frame[t].keys) + 1]
     IN  frame' = [frame EXCEPT ![t].keys =
                     Append(@, [key |-> key, validation |-> validate_combsec_key(key).value])]
  /\ UNCHANGED <<firm_id, base_seed, clock, op, args, ret, pc>>
  /\ UNCHANGED beside_threads

\* export_key_data: "return export_data"
ExportReturn(t) ==
  /\ pc[t] = "export_loop"
  /\ Len(frame[t].keys) >= Len(frame[t].call.val.keys)
  /\ frame' = [frame EXCEPT ![t].result =
                 Some(Returned([system               |-> "ACTNEWWORLDODOR_COMBSEC",
                                base_emoji           |-> GLOBE_EMOJI,
                                unicode_codepoint    |-> UNICODE_CODEPOINT,
                                firm_id              |-> firm_id,
                                generation_timestamp |-> isoformat(frame[t].now.val),
                                total_keys           |-> Len(frame[t].call.val.keys),
                                keys                 |-> frame[t].keys]))]
  /\ pc' = [pc EXCEPT ![t] = "returned"]
  /\ UNCHANGED <<firm_id, base_seed, clock, op, args, ret>>
  /\ UNCHANGED beside_threads

\* the caller has the result; the thread is free for another call
Finish(t) ==
  /\ pc[t] = "returned"
  /\ pc' = [pc EXCEPT ![t] = "idle"]
  /\ frame' = [frame EXCEPT ![t] = NoFrame]
  /\ UNCHANGED <<firm_id, base_seed, clock, op, args, ret>>
  /\ UNCHANGED beside_threads

NextThreads ==
  \/ Tick
  \/ \E t \in Threads :
       \/ Call(t)
       \/ GenClock(t)
       \/ GenHash(t)
       \/ GenKey(t)
       \/ ValidateCall(t)
       \/ BatchClock(t)
       \/ BatchIter(t)
       \/ BatchReturn(t)
       \/ ExportStart(t)
       \/ ExportIter(t)
       \/ ExportReturn(t)
       \/ Finish(t)

SpecThreads == InitThreads /\ [][NextThreads]_vars

----------------------------------------------------------------------------
(* The module's function generate_combsec_key_u1f310, and a generator        *)
(* constructed apart for the same firm id that validates the key.            *)

\* the timestamp argument of generate_combsec_key_u1f310
ApiTimestampArgs == {NoneVal} \cup {Some(t) : t \in {0 - 5, 0, 7, 12, 1234567}}

InitApi ==
  /\ firm_id \in FirmIds
  /\ base_seed = _generate_base_seed(firm_id)
  /\ clock = ClockStart
  /\ op = "call"
  /\ args \in {[firm_id |-> firm_id, timestamp |-> t] : t \in ApiTimestampArgs}
  /\ ret = NoneVal
  /\ OthersInit

\* a call generate_combsec_key_u1f310(firm_id, timestamp)
ApiGenerate ==
  /\ op = "call"
  /\ \E rnd \in TokenHex8 :
       /\ args' = [firm_id |-> args.firm_id, timestamp |-> args.timestamp,
                   now |-> clock, rnd |-> rnd]
       /\ ret' = generate_combsec_key_u1f310(args.firm_id, args.timestamp, clock, rnd)
  /\ op' = "api"
  /\ UNCHANGED <<firm_id, base_seed, clock>>
  /\ UNCHANGED others

\* the generator constructed apart validates the key the function returned
ApiValidate ==
  /\ op = "api"
  /\ op' = "validate"
  /\ args' = [key |-> Some(ret), issued |-> Some(args)]
  /\ ret' = validate_combsec_key(Some(ret))
  /\ UNCHANGED <<firm_id, base_seed, clock>>
  /\ UNCHANGED others

NextApi == Tick \/ ApiGenerate \/ ApiValidate

SpecApi == InitApi /\ [][NextApi]_vars

----------------------------------------------------------------------------
(* GraphQLResolvers: the session keys and the operations behind them. The    *)
(* imports of the module are taken to have succeeded. secrets.token_hex(8)   *)
(* returns 64 random bits: no value is taken to come twice.                  *)

\* the default firm_id of EmojiCombsecGenerator(), "YOURFIRM"
YOURFIRM == <<89, 79, 85, 82, 70, 73, 82, 77>>

\* the firm_id argument of generate_combsec_key and refresh_combsec_key
ResolverFirmIds == {<<70>>}

\* the values secrets.token_hex(8) returns to the resolvers
ResolverTokens == {Repeat(97, 16), Repeat(49, 16), Repeat(98, 16)}

\* "invalid_key"
InvalidKey == <<105, 110, 118, 97, 108, 105, 100, Underscore, 107, 101, 121>>

\* self.combsec_generator.generate_combsec_key(), self.combsec_generator being
\* EmojiCombsecGenerator(): the key for each value of the clock and of
\* secrets.token_hex(8)
combsec_generator_key ==
  [now \in ClockValues, rnd \in ResolverTokens |->
     generate_combsec_key(YOURFIRM, _generate_base_seed(YOURFIRM), NoneVal, NoneVal, now, rnd)]

\* the session keys passed to the resolvers: every key the generator can
\* return, issued or not, and "invalid_key"
SessionKeys == {combsec_generator_key[x] : x \in DOMAIN combsec_generator_key} \cup {InvalidKey}

\* the auth argument: a dictionary without 'session_key' (or with None), with
\* the empty string, with a key
AuthArgs ==
  {[session_key |-> NoneVal], [session_key |-> Some(<<>>)]}
  \cup {[session_key |-> Some(k)] : k \in SessionKeys}

\* the truth value of an Optional[str]: None and "" are false
Truthy(v) == ~v.none /\ v.val # <<>>

\* validate_combsec_key(info, session_key): session_key in self.active_sessions
resolver_validate_combsec_key(sessions, session_key) == session_key \in DOMAIN sessions

\* self.active_sessions[session_key] = {...}
store_session(sessions, session_key, firm, now) ==
  [k \in DOMAIN sessions \cup {session_key} |->
     IF k = session_key
     THEN [firm_id |-> firm, generated_at |-> isoformat(now), expires_at |-> NoneVal]
     ELSE sessions[k]]

\* session_key[:20] + "..." if len(session_key) > 20 else session_key
truncated_key(session_key) ==
  IF Len(session_key) > 20 THEN SubSeq(session_key, 1, 20) \o <<46, 46, 46>> ELSE session_key

\* the dictionary generate_combsec_key(info, firm_id) returns
key_result(session_key, firm, now) ==
  Returned([id            |-> <<99, 111, 109, 98, 115, 101, 99, Underscore>> \o firm
                                \o <<Underscore>> \o str_int(now),
            session_key   |-> session_key,
            truncated_key |-> truncated_key(session_key),
            verified      |-> TRUE,
            generated_at  |-> isoformat(now),
            expires_at    |-> NoneVal])

\* faulty variant of drop_session: the old session is left in place
drop_session_omitted(sessions, current_key) == sessions

\* refresh_combsec_key: "if current_key in self.active_sessions:
\* del self.active_sessions[current_key]"
drop_session(sessions, current_key) ==
  [k \in DOMAIN sessions \ {current_key} |-> sessions[k]]

\* the authentication of process_notebook, create_notion_landing_page and
\* configure_allocator_access: "session_key = auth.get('session_key');
\* if session_key and not self.validate_combsec_key(info, session_key): raise"
authenticate(sessions, auth) ==
  LET session_key == auth.session_key
  IN  IF Truthy(session_key) /\ ~resolver_validate_combsec_key(sessions, session_key.val)
      THEN [exc |-> "Exception", text |-> "Invalid COMBSEC authentication"]
      ELSE [exc |-> "none"]

InitResolvers ==
  /\ firm_id = YOURFIRM
  /\ base_seed = _generate_base_seed(firm_id)
  /\ clock = ClockStart
  /\ op = "init"
  /\ args = NoneVal
  /\ ret = NoneVal
  /\ ResolverIdle
  /\ ThreadsIdle
  /\ DistributorIdle
  /\ GithubIdle
  /\ LoaderIdle

\* a call generate_combsec_key(info, firm_id)
ResolverGenerate ==
  \E firm \in ResolverFirmIds, rnd \in ResolverTokens \ used_random :
    LET session_key == combsec_generator_key[clock, rnd]
    IN  /\ active_sessions' = store_session(active_sessions, session_key, firm, clock)
        /\ used_random' = used_random \cup {rnd}
        /\ issued' = issued \cup {session_key}
        /\ op' = "generate_key"
        /\ args' = [firm_id |-> firm, now |-> clock, rnd |-> rnd]
        /\ ret' = key_result(session_key, firm, clock)
        /\ UNCHANGED <<firm_id, base_seed, clock, retired, effects>>
        /\ UNCHANGED beside_resolver

\* a call validate_combsec_key(info, session_key)
ResolverValidate ==
  \E session_key \in SessionKeys :
    /\ op' = "validate_key"
    /\ args' = [session_key |-> session_key]
    /\ ret' = Returned(resolver_validate_combsec_key(active_sessions, session_key))
    /\ UNCHANGED <<firm_id, base_seed, clock>>
    /\ UNCHANGED resolver
    /\ UNCHANGED beside_resolver

\* a call refresh_combsec_key(info, current_key, firm_id)
ResolverRefresh ==
  \E current_key \in SessionKeys, firm \in ResolverFirmIds, rnd \in ResolverTokens \ used_random :
    LET session_key == combsec_generator_key[clock, rnd]
    IN  /\ active_sessions' = store_session(drop_session(active_sessions, current_key),
                                            session_key, firm, clock)
        /\ used_random' = used_random \cup {rnd}
        /\ issued' = issued \cup {session_key}
        /\ retired' = retired \cup ({current_key} \cap issued)
        /\ op' = "refresh"
        /\ args' = [current_key |-> current_key, firm_id |-> firm, now |-> clock, rnd |-> rnd]
        /\ ret' = key_result(session_key, firm, clock)
        /\ UNCHANGED <<firm_id, base_seed, clock, effects>>
        /\ UNCHANGED beside_resolver

\* a call process_notebook(info, notebook_path, auth): behind the
\* authentication it returns extract_notebook_metrics(info, notebook_path)
ProcessNotebook ==
  \E auth \in AuthArgs :
    LET a == authenticate(active_sessions, auth)
    IN  /\ op' = "process_notebook"
        /\ args' = [auth |-> auth]
        /\ ret' = IF a.exc = "none" THEN Returned("extract_notebook_metrics") ELSE a
        /\ effects' = IF a.exc = "none" THEN effects \cup {"extract_notebook_metrics"} ELSE effects
        /\ UNCHANGED <<firm_id, base_seed, clock, active_sessions, used_random, issued, retired>>
        /\ UNCHANGED beside_resolver

\* a call create_notion_landing_page(info, research_data, options, auth):
\* behind the authentication it returns generate_notion_landing_page(...),
\* which saves the page's specification
CreateNotionLandingPage ==
  \E auth \in AuthArgs :
    LET a == authenticate(active_sessions, auth)
    IN  /\ op' = "create_notion_landing_page"
        /\ args' = [auth |-> auth]
        /\ ret' = IF a.exc = "none" THEN Returned("generate_notion_landing_page") ELSE a
        /\ effects' = IF a.exc = "none" THEN effects \cup {"generate_notion_landing_page"} ELSE effects
        /\ UNCHANGED <<firm_id, base_seed, clock, active_sessions, used_random, issued, retired>>
        /\ UNCHANGED beside_resolver

\* a call configure_allocator_access(info, allocator_id, permissions, auth):
\* behind the authentication it returns the configured allocator
ConfigureAllocatorAccess ==
  \E auth \in AuthArgs :
    LET a == authenticate(active_sessions, auth)
    IN  /\ op' = "configure_allocator_access"
        /\ args' = [auth |-> auth]
        /\ ret' = IF a.exc = "none"
                  THEN Returned([role |-> "Configured", combsec_verified |-> TRUE,
                                 access_level |-> "STANDARD"])
                  ELSE a
        /\ effects' = IF a.exc = "none" THEN effects \cup {"configure_allocator_access"} ELSE effects
        /\ UNCHANGED <<firm_id, base_seed, clock, active_sessions, used_random, issued, retired>>
        /\ UNCHANGED beside_resolver

NextResolvers ==
  \/ Tick
  \/ ResolverGenerate
  \/ ResolverValidate
  \/ ResolverRefresh
  \/ ProcessNotebook
  \/ CreateNotionLandingPage
  \/ ConfigureAllocatorAccess

SpecResolvers == InitResolvers /\ [][NextResolvers]_vars

----------------------------------------------------------------------------
(* PublicIPAlgorithmDistributor: the registry of firm partners. The          *)
(* distributor is constructed with the default firm id; whether a            *)
(* transmission reaches a partner is the network's choice.                   *)

\* the partner_id argument: "A", "B"
PartnerIds == {<<65>>, <<66>>}

\* the priority argument of register_firm_partner
Priorities == {1, 2}

\* the email argument: None, "e"
Emails == {NoneVal, Some(<<101>>)}

\* the package_id of the packages transmitted: "P"
PackageIds == {<<80>>}

\* the values secrets.token_hex(8) returns to the distributor's generator
PartnerTokens == {Repeat(97, 16), Repeat(49, 16)}

\* the keys the distributor's generator can return
PartnerKeys == {combsec_generator_key[now, rnd] : now \in ClockValues, rnd \in PartnerTokens}

\* the record register_firm_partner stores for a partner
partner_record(partner_id, ip_address, port, email, priority, partner_key) ==
  [id                  |-> partner_id,
   ip_address          |-> ip_address,
   port                |-> port,
   email               |-> email,
   priority            |-> priority,
   combsec_key         |-> partner_key,
   last_contact        |-> NoneVal,
   status              |-> "registered",
   algorithms_received |-> <<>>]

\* self.firm_partners[partner_id] = {...}
store_partner(partners, partner_id, record) ==
  [pid \in DOMAIN partners \cup {partner_id} |->
     IF pid = partner_id THEN record ELSE partners[pid]]

\* "REDACTED_FOR_SECURITY"
REDACTED_FOR_SECURITY ==
  <<82, 69, 68, 65, 67, 84, 69, 68, Underscore,
    70, 79, 82, Underscore, 83, 69, 67, 85, 82, 73, 84, 89>>

\* faulty variant of export_partner_registry: the records are copied as they
\* are, the key included
export_partner_registry_unredacted(firm, partners, now) ==
  Returned([firm_id          |-> firm,
            export_timestamp |-> isoformat(now),
            total_partners   |-> Cardinality(DOMAIN partners),
            partners         |-> [pid \in DOMAIN partners |-> partners[pid]]])

\* export_partner_registry(), with the value now of the clock datetime.now()
\* reads: {**partner_data, "combsec_key": "REDACTED_FOR_SECURITY"} per partner
export_partner_registry(firm, partners, now) ==
  Returned([firm_id          |-> firm,
            export_timestamp |-> isoformat(now),
            total_partners   |-> Cardinality(DOMAIN partners),
            partners         |-> [pid \in DOMAIN partners |->
                                    [partners[pid] EXCEPT
                                       !.combsec_key = REDACTED_FOR_SECURITY]]])

InitDistributor ==
  /\ firm_id = YOURFIRM
  /\ base_seed = _generate_base_seed(firm_id)
  /\ clock = ClockStart
  /\ op = "init"
  /\ args = NoneVal
  /\ ret = NoneVal
  /\ DistributorIdle
  /\ ThreadsIdle
  /\ ResolverIdle
  /\ GithubIdle
  /\ LoaderIdle

\* the key order of firm_partners after self.firm_partners[partner_id] = ...:
\* a new key goes to the end, a key the dict holds keeps its place
store_order(order, partner_id) ==
  IF \E i \in 1..Len(order) : order[i] = partner_id
  THEN order
  ELSE Append(order, partner_id)

\* register_firm_partner(partner_id, "192.168.1.100", 8080, email, priority),
\* rnd being the value secrets.token_hex(8) returns to the generator
RegisterPartner(partner_id, email, priority, rnd) ==
  LET partner_key == combsec_generator_key[clock, rnd]
  IN  /\ firm_partners' =
           store_partner(firm_partners, partner_id,
                         partner_record(partner_id, "192.168.1.100", 8080, email, priority,
                                        partner_key))
      /\ partner_order' = store_order(partner_order, partner_id)
      /\ op' = "register"
      /\ args' = [partner_id |-> partner_id, now |-> clock, rnd |-> rnd]
      /\ ret' = partner_key
      /\ UNCHANGED <<firm_id, base_seed, clock>>
      /\ UNCHANGED distribution
      /\ UNCHANGED beside_distributor

\* a call register_firm_partner(partner_id, ip_address, port, email, priority)
RegisterFirmPartner ==
  \E partner_id \in PartnerIds, email \in Emails, priority \in Priorities, rnd \in PartnerTokens :
    RegisterPartner(partner_id, email, priority, rnd)

\* _transmit_to_partner(partner_id, algorithm_package) for a registered
\* partner: the partner acknowledges, or the connection fails
TransmitToPartner ==
  \E partner_id \in DOMAIN firm_partners, package_id \in PackageIds, success \in BOOLEAN :
    LET partner == firm_partners[partner_id]
    IN  /\ Len(partner.algorithms_received) < MaxReceived
        /\ firm_partners' =
             [firm_partners EXCEPT ![partner_id] =
                IF success
                THEN [partner EXCEPT !.last_contact = Some(isoformat(clock)),
                                     !.status = "active",
                                     !.algorithms_received = Append(@, package_id)]
                ELSE [partner EXCEPT !.status = "connection_failed"]]
        /\ op' = "transmit"
        /\ args' = [partner_id |-> partner_id, package_id |-> package_id]
        /\ ret' = Returned([success |-> success, partner_id |-> partner_id])
        /\ UNCHANGED <<firm_id, base_seed, clock>>
        /\ UNCHANGED <<partner_order, distribution>>
        /\ UNCHANGED beside_distributor

\* a call export_partner_registry()
ExportPartnerRegistry ==
  /\ op' = "export_registry"
  /\ args' = NoneVal
  /\ ret' = export_partner_registry(firm_id, firm_partners, clock)
  /\ UNCHANGED <<firm_id, base_seed, clock, firm_partners>>
  /\ UNCHANGED <<partner_order, distribution>>
  /\ UNCHANGED beside_distributor

NextDistributor == Tick \/ RegisterFirmPartner \/ TransmitToPartner \/ ExportPartnerRegistry

SpecDistributor == InitDistributor /\ [][NextDistributor]_vars

----------------------------------------------------------------------------
(* PublicIPAlgorithmDistributor: packages and their distribution. Whether a  *)
(* partner acknowledges a transmission is the network's choice, made per     *)
(* attempt. connect_to_server is not called, so server_connected keeps the   *)
(* value __init__ gave it.                                                   *)

\* the largest number of send_urgent_update calls
MaxUrgent == 2

\* a partner id that is never registered: "Z"
UnregisteredId == <<90>>

\* the target_partners argument: None, or a list of partner ids:
\* ["B","A"], ["A","Z"], ["A","B","A"]
TargetLists ==
  {<<(<<66>>), (<<65>>)>>, <<(<<65>>), UnregisteredId>>, <<(<<65>>), (<<66>>), (<<65>>)>>}

TargetArgs == {NoneVal} \cup {Some(l) : l \in TargetLists}

\* the value secrets.token_hex(8) returns when a package gets its key, and
\* when a partner of a distribution is registered
PackageToken == Repeat(97, 16)

\* "URGENT_UPDATE"
URGENT_UPDATE == <<85, 82, 71, 69, 78, 84, Underscore, 85, 80, 68, 65, 84, 69>>

\* f"urgent_{int(time.time())}"
urgent_version(now) == <<117, 114, 103, 101, 110, 116, Underscore>> \o str_int(now)

\* the algorithm_name and version of the packages that are not urgent:
\* "N", "1.0"
PlainName == <<78>>
DefaultVersion == <<49, 46, 48>>

\* hashlib.sha256(f"{algorithm_name}{version}{timestamp}".encode()).hexdigest()[:16]
package_id_of(algorithm_name, version, timestamp) ==
  SubSeq(sha256_hexdigest(encode_utf8(algorithm_name \o version \o str_int(timestamp))), 1, 16)

\* create_algorithm_package(algorithm_name, algorithm_data, version, is_urgent)
\* at the clock value now (the checksum of the data is left out)
create_algorithm_package(firm, algorithm_name, algorithm_data, version, is_urgent, now, rnd) ==
  [package_id        |-> package_id_of(algorithm_name, version, now),
   algorithm_name    |-> algorithm_name,
   algorithm_data    |-> algorithm_data,
   version           |-> version,
   firm_id           |-> firm,
   timestamp         |-> now,
   datetime          |-> isoformat(now),
   is_urgent         |-> is_urgent,
   combsec_key       |-> combsec_generator_key[now, rnd],
   distribution_type |-> "DISTTRANSDISSINFORCVD"]

\* the package send_urgent_update creates, by the clock value
urgent_package ==
  [now \in ClockValues |->
     create_algorithm_package(YOURFIRM, URGENT_UPDATE,
                              [message |-> "m", data |-> NoneVal, priority |-> 1],
                              urgent_version(now), TRUE, now, PackageToken)]

\* the packages a caller creates and passes to distribute_algorithm_instant,
\* by is_urgent and the clock value
caller_package ==
  [is_urgent \in BOOLEAN, now \in ClockValues |->
     create_algorithm_package(YOURFIRM, PlainName, NoneVal, DefaultVersion, is_urgent, now,
                              PackageToken)]

\* faulty variant of _transmit_to_partner: a failed attempt leaves the status
\* of the partner as it was
_transmit_to_partner_status_kept(partners, partner_id, package, acknowledged, now) ==
  IF partner_id \notin DOMAIN partners
  THEN [partners |-> partners,
        result   |-> [exc |-> "ValueError",
                      text |-> <<"Partner ", partner_id, " not registered">>]]
  ELSE IF acknowledged
  THEN [partners |-> [partners EXCEPT ![partner_id] =
                        [@ EXCEPT !.last_contact = Some(isoformat(now)),
                                  !.status = "active",
                                  !.algorithms_received = Append(@, package.package_id)]],
        result   |-> Returned([success |-> TRUE, partner_id |-> partner_id,
                               transmission_time |-> isoformat(now)])]
  ELSE [partners |-> partners,
        result   |-> Returned([success |-> FALSE, partner_id |-> partner_id,
                               error |-> "connection",
                               transmission_time |-> isoformat(now)])]

\* _transmit_to_partner(partner_id, algorithm_package): the registry after the
\* call and what the call returns or raises. acknowledged tells whether the
\* connection, the send and the partner's answer all succeed.
_transmit_to_partner(partners, partner_id, package, acknowledged, now) ==
  IF partner_id \notin DOMAIN partners
  THEN [partners |-> partners,
        result   |-> [exc |-> "ValueError",
                      text |-> <<"Partner ", partner_id, " not registered">>]]
  ELSE IF acknowledged
  THEN [partners |-> [partners EXCEPT ![partner_id] =
                        [@ EXCEPT !.last_contact = Some(isoformat(now)),
                                  !.status = "active",
                                  !.algorithms_received = Append(@, package.package_id)]],
        result   |-> Returned([success |-> TRUE, partner_id |-> partner_id,
                               transmission_time |-> isoformat(now)])]
  ELSE [partners |-> [partners EXCEPT ![partner_id] =
                        [@ EXCEPT !.status = "connection_failed"]],
        result   |-> Returned([success |-> FALSE, partner_id |-> partner_id,
                               error |-> "connection",
                               transmission_time |-> isoformat(now)])]

\* faulty variant of sorted_by_priority: the targets are left in their order
sorted_by_priority_omitted(target_partners, partners) == target_partners

\* sorted(target_partners, key=lambda p: self.firm_partners[p]["priority"]):
\* a stable sort, each element placed after those before it in the list whose
\* priority is not greater
RECURSIVE sorted_by_priority(_, _)
sorted_by_priority(target_partners, partners) ==
  IF target_partners = <<>>
  THEN <<>>
  ELSE LET n      == Len(target_partners)
           before == sorted_by_priority(SubSeq(target_partners, 1, n - 1), partners)
           p      == target_partners[n]
           k      == Cardinality({i \in 1..Len(before) :
                                    partners[before[i]].priority <= partners[p].priority})
       IN  SubSeq(before, 1, k) \o <<p>> \o SubSeq(before, k + 1, Len(before))

\* the loop "for partner_id in sorted_partners" from its i-th iteration on;
\* st holds the registry, distribution_results and the attempts made so far
RECURSIVE transmit_each(_, _, _, _, _, _)
transmit_each(st, sorted_partners, package, acks, now, i) ==
  IF i > Len(sorted_partners)
  THEN st
  ELSE
  LET partner_id == sorted_partners[i]
      t          == _transmit_to_partner(st.partners, partner_id, package, acks[i], now)
      result     == IF t.result.exc = "none"
                    THEN t.result.value
                    ELSE [success |-> FALSE, error |-> t.result.text,
                          timestamp |-> isoformat(now)]
      counted    == IF result.success
                    THEN [st.results EXCEPT !.successful_transmissions = @ + 1]
                    ELSE [st.results EXCEPT !.failed_transmissions = @ + 1]
  IN  transmit_each(
        [partners |-> t.partners,
         results  |-> [counted EXCEPT
                         !.partner_results = store_partner(@, partner_id, result)],
         attempts |-> Append(st.attempts, partner_id)],
        sorted_partners, package, acks, now, i + 1)

\* the targets of a distribution: list(self.firm_partners.keys()) for None
targets_of(target_partners, order) ==
  IF target_partners.none THEN order ELSE target_partners.val

\* distribute_algorithm_instant(algorithm_package, target_partners): the
\* registry after the call, the attempts made and what the call returns or
\* raises; acks[i] is the network's choice for the i-th attempt
distribute_algorithm_instant(partners, order, package, target_partners, acks, now) ==
  LET targets == targets_of(target_partners, order)
      distribution_results ==
        [package_id               |-> package.package_id,
         distribution_timestamp   |-> isoformat(now),
         total_partners           |-> Len(targets),
         successful_transmissions |-> 0,
         failed_transmissions     |-> 0,
         partner_results          |-> EmptyDict]
      missing == {i \in 1..Len(targets) : targets[i] \notin DOMAIN partners}
  IN  IF package.is_urgent /\ missing # {}
      THEN \* self.firm_partners[p] in the key of sorted()
           [partners |-> partners,
            attempts |-> <<>>,
            result   |-> [exc |-> "KeyError",
                          text |-> targets[CHOOSE i \in missing : \A j \in missing : i <= j]]]
      ELSE LET sorted_partners == IF package.is_urgent
                                  THEN sorted_by_priority(targets, partners)
                                  ELSE targets
               st == transmit_each([partners |-> partners,
                                    results  |-> distribution_results,
                                    attempts |-> <<>>],
                                   sorted_partners, package, acks, now, 1)
           IN  [partners |-> st.partners,
                attempts |-> st.attempts,
                result   |-> Returned(st.results)]

\* get_distribution_status(), with the value now of the clock
get_distribution_status(firm, partners, order, queue, now) ==
  Returned([firm_id               |-> firm,
            server_connected      |-> FALSE,
            total_partners        |-> Cardinality(DOMAIN partners),
            active_partners       |-> Cardinality({pid \in DOMAIN partners :
                                                     partners[pid].status = "active"}),
            urgent_updates_queued |-> Len(queue),
            system_timestamp      |-> isoformat(now),
            combsec_system        |-> "ACTIVE",
            partners              |-> order])

\* faulty variant of enqueue: the queue holds the latest package only
enqueue_latest_only(queue, package) == <<package>>

\* self.urgent_update_queue.append(urgent_package)
enqueue(queue, package) == Append(queue, package)

\* the choices of the network for a distribution to the targets: one per
\* attempt, none acknowledged where no attempt reaches a registered partner,
\* and no partner made to hold more than MaxReceived packages
AckChoices(partners, order, package, target_partners) ==
  LET targets == targets_of(target_partners, order)
      raises  == package.is_urgent /\ \E i \in 1..Len(targets) : targets[i] \notin DOMAIN partners
      sorted_partners == IF package.is_urgent /\ ~raises
                         THEN sorted_by_priority(targets, partners)
                         ELSE targets
  IN  {acks \in [1..Len(targets) -> BOOLEAN] :
         /\ \A i \in 1..Len(targets) :
              acks[i] => (~raises /\ sorted_partners[i] \in DOMAIN partners)
         /\ \A pid \in DOMAIN partners :
              Len(partners[pid].algorithms_received)
                + Cardinality({i \in 1..Len(targets) : acks[i] /\ sorted_partners[i] = pid})
              <= MaxReceived}

InitDistribution == InitDistributor

\* a call register_firm_partner(partner_id, "192.168.1.100", 8080, None, priority)
RegisterDistributionPartner ==
  \E partner_id \in PartnerIds, priority \in Priorities :
    RegisterPartner(partner_id, NoneVal, priority, PackageToken)

\* a call distribute_algorithm_instant(package, target_partners) with a
\* package the caller got from create_algorithm_package
DistributeAlgorithmInstant ==
  \E is_urgent \in BOOLEAN, target_partners \in TargetArgs :
    LET package == caller_package[is_urgent, clock] IN
    \E acks \in AckChoices(firm_partners, partner_order, package, target_partners) :
      LET d == distribute_algorithm_instant(firm_partners, partner_order, package,
                                            target_partners, acks, clock)
      IN  /\ firm_partners' = d.partners
          /\ attempts' = d.attempts
          /\ op' = "distribute"
          /\ args' = [package |-> package, target_partners |-> target_partners, acks |-> acks]
          /\ ret' = d.result
          /\ UNCHANGED <<firm_id, base_seed, clock>>
          /\ UNCHANGED <<partner_order, urgent_update_queue, urgent_calls>>
          /\ UNCHANGED beside_distributor

\* a call send_urgent_update("m"): the package is created, queued and
\* distributed to all partners; the email notifications are only logged
SendUrgentUpdate ==
  /\ urgent_calls < MaxUrgent
  /\ LET package == urgent_package[clock] IN
     \E acks \in AckChoices(firm_partners, partner_order, package, NoneVal) :
       LET d == distribute_algorithm_instant(firm_partners, partner_order, package,
                                             NoneVal, acks, clock)
       IN  /\ urgent_update_queue' = enqueue(urgent_update_queue, package)
           /\ urgent_calls' = urgent_calls + 1
           /\ firm_partners' = d.partners
           /\ attempts' = d.attempts
           /\ op' = "send_urgent_update"
           /\ args' = [package |-> package, target_partners |-> NoneVal, acks |-> acks]
           /\ ret' = d.result
           /\ UNCHANGED <<firm_id, base_seed, clock, partner_order>>
           /\ UNCHANGED beside_distributor

\* a call get_distribution_status()
GetDistributionStatus ==
  /\ op' = "status"
  /\ args' = NoneVal
  /\ ret' = get_distribution_status(firm_id, firm_partners, partner_order,
                                    urgent_update_queue, clock)
  /\ UNCHANGED <<firm_id, base_seed, clock>>
  /\ UNCHANGED distributor
  /\ UNCHANGED beside_distributor

NextDistribution ==
  \/ RegisterDistributionPartner
  \/ DistributeAlgorithmInstant
  \/ SendUrgentUpdate
  \/ GetDistributionStatus

SpecDistribution == InitDistribution /\ [][NextDistribution]_vars

----------------------------------------------------------------------------
(* SocialMediaEngine.format_for_platform as a function of the post and the   *)
(* platform name: the initial state draws them and the one action is the     *)
(* call.                                                                     *)

\* self.platforms: the max_length and the hashtag_support of each platform
platforms ==
  [linkedin |-> [max_length |-> 3000,  hashtag_support |-> TRUE],
   twitter  |-> [max_length |-> 280,   hashtag_support |-> TRUE],
   github   |-> [max_length |-> 5000,  hashtag_support |-> FALSE],
   notion   |-> [max_length |-> 10000, hashtag_support |-> FALSE]]

\* "\n\n"
BlankLine == <<10, 10>>
\* "..."
Ellipsis == <<46, 46, 46>>
\* the default title, "(U+1F310) QXR Research Update"
DefaultTitle ==
  <<127760, 32, 81, 88, 82, 32, 82, 101, 115, 101, 97, 114, 99, 104, 32,
    85, 112, 100, 97, 116, 101>>
\* the default content, "Research data processing completed."
DefaultContent ==
  <<82, 101, 115, 101, 97, 114, 99, 104, 32, 100, 97, 116, 97, 32, 112, 114, 111, 99, 101,
    115, 115, 105, 110, 103, 32, 99, 111, 109, 112, 108, 101, 116, 101, 100, 46>>
\* "FALLBACK_KEY"
FALLBACK_KEY == <<70, 65, 76, 76, 66, 65, 67, 75, Underscore, 75, 69, 89>>
\* "COMBSEC:"
CombsecWord == <<67, 79, 77, 66, 83, 69, 67, 58>>
\* combsec_line, "(U+1F510) Verified with COMBSEC:"
combsec_line ==
  <<128272, 32, 86, 101, 114, 105, 102, 105, 101, 100, 32, 119, 105, 116, 104, 32>>
  \o CombsecWord
\* the text used when everything is empty:
\* "(U+1F310) QXR Research Update\n\nData processing completed.\n\n(U+1F510) Session verified"
EmptyPostText ==
  DefaultTitle \o BlankLine
  \o <<68, 97, 116, 97, 32, 112, 114, 111, 99, 101, 115, 115, 105, 110, 103, 32,
       99, 111, 109, 112, 108, 101, 116, 101, 100, 46>>
  \o BlankLine
  \o <<128272, 32, 83, 101, 115, 115, 105, 111, 110, 32, 118, 101, 114, 105, 102, 105, 101, 100>>
\* footer, "\n\n(U+1F517) More details..."
footer ==
  BlankLine \o <<128279, 32, 77, 111, 114, 101, 32, 100, 101, 116, 97, 105, 108, 115>> \o Ellipsis
\* "...\n\n(U+1F517) More"
MoreSuffix == Ellipsis \o BlankLine \o <<128279, 32, 77, 111, 114, 101>>

\* str.find(sub) for a non-empty sub: the lowest index, from 0, or -1
find(s, sub) ==
  LET hits == {i \in 1..(Len(s) - Len(sub) + 1) :
                 s[i] = sub[1] /\ SubSeq(s, i, i + Len(sub) - 1) = sub}
  IN  IF hits = {} THEN 0 - 1 ELSE (CHOOSE i \in hits : \A j \in hits : i <= j) - 1

\* the slice s[:k]: a negative k counts from the end
slice_to(s, k) ==
  IF k >= 0
  THEN SubSeq(s, 1, IF k < Len(s) THEN k ELSE Len(s))
  ELSE SubSeq(s, 1, IF Len(s) + k > 0 THEN Len(s) + k ELSE 0)

\* ' '.join(hashtags)
RECURSIVE join_spaces(_)
join_spaces(words) ==
  IF Len(words) = 0 THEN <<>>
  ELSE IF Len(words) = 1 THEN words[1]
  ELSE words[1] \o <<32>> \o join_spaces(Tail(words))

\* faulty variant of final_length_check: the text is returned as it is
final_length_check_omitted(text, max_length) == text

\* the final length check of the truncation
final_length_check(text, max_length) ==
  IF Len(text) > max_length
  THEN slice_to(text, max_length - 3) \o Ellipsis
  ELSE text

\* the truncation that keeps the COMBSEC reference found at combsec_idx
truncate_keeping_combsec(formatted_content, combsec_idx, max_length) ==
  LET combsec_part       == SubSeq(formatted_content, combsec_idx + 1, Len(formatted_content))
      before_combsec     == rstrip(SubSeq(formatted_content, 1, combsec_idx))
      combsec_part_lines == split(combsec_part, 10)
      essential_combsec  == IF Len(combsec_part_lines) > 1
                            THEN combsec_part_lines[1] \o <<10>> \o combsec_part_lines[2]
                            ELSE combsec_part_lines[1]
      space_for_content  == max_length - Len(essential_combsec) - Len(footer)
  IN  IF Len(before_combsec) > space_for_content
      THEN slice_to(before_combsec, space_for_content - 3) \o Ellipsis
             \o BlankLine \o essential_combsec
      ELSE before_combsec \o BlankLine \o essential_combsec

\* the block "if len(formatted_content) > platform.max_length"
truncate(formatted_content, max_length) ==
  IF Len(formatted_content) <= max_length
  THEN formatted_content
  ELSE LET combsec_idx == find(formatted_content, combsec_line)
       IN  final_length_check(
             IF combsec_idx >= 0
             THEN truncate_keeping_combsec(formatted_content, combsec_idx, max_length)
             ELSE slice_to(formatted_content, max_length - 20) \o MoreSuffix,
             max_length)

\* the text before the truncation: title, content, hashtags and the COMBSEC
\* reference
untruncated(post, platform) ==
  LET title   == IF Truthy(post.title) THEN post.title.val ELSE DefaultTitle
      content == IF Truthy(post.content) THEN post.content.val ELSE DefaultContent
      plain   == title \o BlankLine \o content
      tagged  == IF platform.hashtag_support /\ post.hashtags # <<>>
                 THEN plain \o BlankLine \o join_spaces(post.hashtags)
                 ELSE plain
      keyed   == IF /\ Truthy(post.combsec_key)
                    /\ post.combsec_key.val # FALLBACK_KEY
                    /\ find(tagged, CombsecWord) < 0
                 THEN tagged \o BlankLine \o combsec_line \o <<32>>
                        \o slice_to(post.combsec_key.val, 20) \o Ellipsis
                 ELSE tagged
  IN  IF lstrip(rstrip(keyed)) = <<>> THEN EmptyPostText ELSE keyed

\* format_for_platform(post, platform_name)
format_for_platform(post, platform_name) ==
  IF platform_name \notin DOMAIN platforms
  THEN [exc |-> "ValueError", text |-> <<"Unsupported platform: ", platform_name>>]
  ELSE Returned(truncate(untruncated(post, platforms[platform_name]),
                         platforms[platform_name].max_length))

\* the platform_name argument: the four platforms and an unsupported one
PlatformNames == {"linkedin", "twitter", "github", "notion", "facebook"}

\* titles: None, "", "T"
PostTitles == {NoneVal, Some(<<>>), Some(<<84>>)}

\* a content that itself holds a COMBSEC line, followed by a line longer than
\* every platform allows
ContentWithCombsecLine ==
  <<99>> \o BlankLine \o combsec_line \o <<32, 107, 10>> \o Repeat(122, 10050)

\* contents: "", with the title "T" a text of exactly 280 and of 281, 3001,
\* 5001 and 10001 characters, and the content that holds a COMBSEC line
PostContents ==
  {Some(<<>>), Some(Repeat(99, 277)), Some(Repeat(99, 278)), Some(Repeat(99, 2998)),
   Some(Repeat(99, 4998)), Some(Repeat(99, 9998)), Some(ContentWithCombsecLine)}

\* hashtags: [], ["#a", "#b"]
PostHashtags == {<<>>, <<(<<35, 97>>), (<<35, 98>>)>>}

\* combsec_key: None, "FALLBACK_KEY", a key of 30 characters
PostKeys == {NoneVal, Some(FALLBACK_KEY), Some(Repeat(107, 30))}

Posts ==
  {[title |-> t, content |-> c, hashtags |-> h, combsec_key |-> k] :
     t \in PostTitles, c \in PostContents, h \in PostHashtags, k \in PostKeys}

InitFormat ==
  /\ firm_id = <<81, 88, 82>>
  /\ base_seed = _generate_base_seed(firm_id)
  /\ clock = ClockStart
  /\ op = "call"
  /\ args \in {[post |-> p, platform_name |-> n] : p \in Posts, n \in PlatformNames}
  /\ ret = NoneVal
  /\ OthersInit

\* a call format_for_platform(post, platform_name)
FormatForPlatform ==
  /\ op = "call"
  /\ op' = "format"
  /\ ret' = format_for_platform(args.post, args.platform_name)
  /\ UNCHANGED <<firm_id, base_seed, clock, args>>
  /\ UNCHANGED others

NextFormat == FormatForPlatform

SpecFormat == InitFormat /\ [][NextFormat]_vars

----------------------------------------------------------------------------
(* GitHubTimestampIntegrator, of                                           *)
(* src/ACTNEWWORLDODOR/github_timestamp_integration.py: SpecGithub         *)

\* the default firm_id, "GITHUB_FIRM"
GITHUB_FIRM == <<71, 73, 84, 72, 85, 66, Underscore, 70, 73, 82, 77>>
\* the commit hash get_git_commit_info falls back to, "NO_GIT_REPO"
NO_GIT_REPO == <<78, 79, Underscore, 71, 73, 84, Underscore, 82, 69, 80, 79>>
\* os.environ.get(var, 'NOT_SET') outside GitHub Actions
NOT_SET == <<78, 79, 84, Underscore, 83, 69, 84>>

\* how many keys the integrator returns in a behaviour
MaxGithubKeys == 3
\* what 'git rev-parse HEAD' can print: nothing outside a repository (the
\* fallback hash is used then), or a commit hash
CommitHashes == {NO_GIT_REPO, Repeat(97, 40), Repeat(98, 40)}
\* how long time.sleep(0.1) can take, in tenths of a second
SleepTenths == {1, 2}

\* time.time() in tenths of a second, and the last instant of the model
Instant == clock * 10 + tenths
LastInstant == (ClockStart + MaxTicks) * 10 + 9

\* hashlib.sha256(''.join(github_entropy_components)).hexdigest()[:16]
github_entropy(current_timestamp, git_commit_hash, github_sha, github_run_id) ==
  SubSeq(sha256_hexdigest(encode_utf8(str_int(current_timestamp) \o git_commit_hash
                                      \o github_sha \o github_run_id)), 1, 16)

\* generate_github_timestamped_key(include_commit_data, include_github_env)
\* at the time now, int(time.time()), with HEAD at the commit head: the
\* metadata that is absent contributes "" to the entropy
generate_github_timestamped_key(firm, seed, include_commit_data, include_github_env, now, head) ==
  LET git_commit_hash == IF include_commit_data THEN head ELSE <<>>
      github_sha      == IF include_github_env THEN NOT_SET ELSE <<>>
      github_run_id   == IF include_github_env THEN NOT_SET ELSE <<>>
      entropy == github_entropy(now, git_commit_hash, github_sha, github_run_id)
  IN  [combsec_key |-> generate_combsec_key(firm, seed, Some(now), Some(entropy), now, <<>>),
       generation_timestamp |-> now,
       has_git_info |-> include_commit_data,
       has_github_env |-> include_github_env,
       firm_id |-> firm]

\* the key data of the integrator GitHubTimestampIntegrator(), for each time,
\* commit and pair of arguments
github_key_data ==
  [now \in ClockValues, head \in CommitHashes, c \in BOOLEAN, e \in BOOLEAN |->
     generate_github_timestamped_key(GITHUB_FIRM, _generate_base_seed(GITHUB_FIRM), c, e, now, head)]

\* the instant at which export_github_key_batch generates its item i, having
\* started at the instant t0 and slept sleeps[j] before item j + 1
RECURSIVE item_instant(_, _, _)
item_instant(t0, sleeps, i) ==
  IF i = 1 THEN t0 ELSE item_instant(t0, sleeps, i - 1) + sleeps[i - 1]

\* export_github_key_batch(count): key i is generated after a sleep of 0.1 s
\* for i > 0, with the default arguments
export_github_key_batch(count, t0, sleeps, head) ==
  LET keys == [i \in 1..count |->
                 github_key_data[item_instant(t0, sleeps, i) \div 10, head, TRUE, TRUE]]
  IN  [firm_id |-> GITHUB_FIRM, total_keys |-> Len(keys), keys |-> keys,
       github_integration |-> TRUE]

InitGithub ==
  /\ firm_id = GITHUB_FIRM
  /\ base_seed = _generate_base_seed(firm_id)
  /\ clock = ClockStart
  /\ op = "init"
  /\ args = NoneVal
  /\ ret = NoneVal
  /\ tenths = 0
  /\ commit_hash \in CommitHashes
  /\ github_keys = <<>>
  /\ ThreadsIdle
  /\ ResolverIdle
  /\ DistributorIdle
  /\ LoaderIdle

\* a tenth of a second passes
Elapse ==
  /\ Instant < LastInstant
  /\ clock' = (Instant + 1) \div 10
  /\ tenths' = (Instant + 1) % 10
  /\ UNCHANGED <<firm_id, base_seed, op, args, ret, commit_hash, github_keys>>
  /\ UNCHANGED beside_github

\* HEAD moves to another commit
Commit ==
  /\ \E head \in CommitHashes \ {commit_hash, NO_GIT_REPO} : commit_hash' = head
  /\ commit_hash # NO_GIT_REPO
  /\ UNCHANGED <<firm_id, base_seed, clock, op, args, ret, tenths, github_keys>>
  /\ UNCHANGED beside_github

\* a call generate_github_timestamped_key(include_commit_data, include_github_env)
GenerateGithubKey ==
  /\ Len(github_keys) < MaxGithubKeys
  /\ \E include_commit_data \in BOOLEAN, include_github_env \in BOOLEAN :
       LET key_data == github_key_data[clock, commit_hash, include_commit_data,
                                       include_github_env]
       IN  /\ op' = "github_key"
           /\ args' = [include_commit_data |-> include_commit_data,
                       include_github_env |-> include_github_env, now |-> clock]
           /\ ret' = key_data
           /\ github_keys' = Append(github_keys, key_data.combsec_key)
  /\ UNCHANGED <<firm_id, base_seed, clock, tenths, commit_hash>>
  /\ UNCHANGED beside_github

\* a call export_github_key_batch(count)
ExportGithubKeyBatch ==
  /\ \E count \in 0..MaxBatch :
       /\ Len(github_keys) + count <= MaxGithubKeys
       /\ \E sleeps \in [1..(count - 1) -> SleepTenths] :
            LET end == item_instant(Instant, sleeps, IF count = 0 THEN 1 ELSE count)
                export_data == export_github_key_batch(count, Instant, sleeps, commit_hash)
            IN  /\ end <= LastInstant
                /\ op' = "github_batch"
                /\ args' = [count |-> count, now |-> clock, sleeps |-> sleeps]
                /\ ret' = export_data
                /\ github_keys' = github_keys \o
                                  [i \in 1..count |-> export_data.keys[i].combsec_key]
                /\ clock' = end \div 10
                /\ tenths' = end % 10
  /\ UNCHANGED <<firm_id, base_seed, commit_hash>>
  /\ UNCHANGED beside_github

NextGithub == Elapse \/ Commit \/ GenerateGithubKey \/ ExportGithubKeyBatch

SpecGithub == InitGithub /\ [][NextGithub]_vars

----------------------------------------------------------------------------
(* CustomWorkflowLoader, of src/QXR/custom_workflow_loader.py:             *)
(* SpecLoader (calls of execute_custom_workflow) and SpecMonitor           *)
(* (monitor_command_file)                                                  *)

\* "loadmymainquantQXRworkflow", the command process_command looks for
WorkflowCommand ==
  <<108, 111, 97, 100, 109, 121, 109, 97, 105, 110, 113, 117, 97, 110, 116,
    81, 88, 82, 119, 111, 114, 107, 102, 108, 111, 119>>
\* "customnow"
CustomNow == <<99, 117, 115, 116, 111, 109, 110, 111, 119>>
\* "unknown_command"
UnknownCommand ==
  <<117, 110, 107, 110, 111, 119, 110, Underscore, 99, 111, 109, 109, 97, 110, 100>>

\* how many calls of run_qxr_main a behaviour of SpecLoader makes
MaxInvocations == 2

\* what the command file can hold: nothing, white space, an unknown command,
\* the command with "customnow!", the command between other text
CommandContents ==
  {<<>>, <<32, 32, 10>>, UnknownCommand,
   WorkflowCommand \o CustomNow \o <<33>>,
   <<32, 120>> \o WorkflowCommand \o <<10>>}

\* what run_qxr_main() does: it returns True or False, or raises
WorkflowOutcomes ==
  {Returned(TRUE), Returned(FALSE), [exc |-> "RuntimeError", text |-> <<>>]}

\* str.strip()
strip(s) == rstrip(lstrip(s))

\* sub in s
contains(s, sub) == find(s, sub) >= 0

\* check_command_file(): self.command_file.exists()
check_command_file(file) == ~file.none

\* read_command_file(): the stripped content, "" when the file is absent or
\* cannot be read (readable: whether open() and read() succeed)
read_command_file(file, readable) ==
  IF check_command_file(file) /\ readable THEN strip(file.val.content) ELSE <<>>

\* process_command(command)
process_command(command, now) ==
  IF contains(command, WorkflowCommand)
  THEN [action |-> "load_qxr_workflow", custom |-> contains(command, CustomNow),
        timestamp |-> isoformat(now)]
  ELSE [action |-> "unknown", command |-> command, timestamp |-> isoformat(now)]

\* save_execution_log(log_entry): mkdir raises when the directory cannot be
\* made (mkdir_ok false); a failure to write the file is caught (write_ok
\* false) and "" returned.  saved: the entries written.
save_execution_log(log_entry, mkdir_ok, write_ok) ==
  IF ~mkdir_ok THEN [exc |-> "OSError", saved |-> <<>>]
  ELSE IF write_ok THEN [exc |-> "none", saved |-> <<log_entry>>]
  ELSE [exc |-> "none", saved |-> <<>>]

\* execute_custom_workflow(), the command file being file: what it returns or
\* raises, how often it called run_qxr_main, and the log entries it saved.
\* outcome is what run_qxr_main does when called.
execute_custom_workflow(file, readable, outcome, mkdir_ok, write_ok, now) ==
  LET command == read_command_file(file, readable)
      processed_command == process_command(command, now)
      log_entry == [command |-> command, processed_command |-> processed_command]
      \* the except branch: the log entry with the error is saved
      handler(error) ==
        LET log == save_execution_log(log_entry @@ [success |-> FALSE, error |-> error],
                                      mkdir_ok, write_ok)
        IN  IF log.exc # "none"
            THEN [result |-> [exc |-> log.exc, text |-> <<>>], invoked |-> 1, saved |-> <<>>]
            ELSE [result |-> Returned(FALSE), invoked |-> 1, saved |-> log.saved]
  IN  IF command = <<>>
      THEN [result |-> Returned(FALSE), invoked |-> 0, saved |-> <<>>]
      ELSE IF processed_command.action # "load_qxr_workflow"
      THEN [result |-> Returned(FALSE), invoked |-> 0, saved |-> <<>>]
      ELSE IF outcome.exc # "none"
      THEN handler(outcome.exc)
      ELSE LET success == outcome.value
               log == save_execution_log(log_entry @@ [success |-> success],
                                         mkdir_ok, write_ok)
           IN  IF log.exc # "none"
               THEN handler(log.exc)
               ELSE [result |-> Returned(success), invoked |-> 1, saved |-> log.saved]

\* the command file is written: its modification time is the time of writing
WriteCommandFile ==
  /\ \E content \in CommandContents :
       command_file' = Some([content |-> content, st_mtime |-> clock])
  /\ unseen' = TRUE
  /\ UNCHANGED <<firm_id, base_seed, clock, op, args, ret>>
  /\ UNCHANGED <<invocations, last_modified, monitor_pc, executed>>
  /\ UNCHANGED beside_loader

\* the command file is removed
RemoveCommandFile ==
  /\ ~command_file.none
  /\ command_file' = NoneVal
  /\ UNCHANGED <<firm_id, base_seed, clock, op, args, ret>>
  /\ UNCHANGED <<invocations, monitor>>
  /\ UNCHANGED beside_loader

\* time passes
Pass ==
  /\ clock < ClockStart + MaxTicks
  /\ clock' = clock + 1
  /\ UNCHANGED <<firm_id, base_seed, op, args, ret>>
  /\ UNCHANGED loader
  /\ UNCHANGED beside_loader

InitLoader ==
  /\ firm_id = <<81, 88, 82>>
  /\ base_seed = _generate_base_seed(firm_id)
  /\ clock = ClockStart
  /\ op = "init"
  /\ args = NoneVal
  /\ ret = NoneVal
  /\ OthersInit

\* a call execute_custom_workflow()
ExecuteCustomWorkflow ==
  /\ invocations < MaxInvocations
  /\ \E readable \in BOOLEAN, outcome \in WorkflowOutcomes,
        mkdir_ok \in BOOLEAN, write_ok \in BOOLEAN :
       LET r == execute_custom_workflow(command_file, readable, outcome,
                                        mkdir_ok, write_ok, clock)
       IN  /\ op' = "execute"
           /\ args' = [file |-> command_file, readable |-> readable, outcome |-> outcome,
                       mkdir_ok |-> mkdir_ok, write_ok |-> write_ok]
           /\ ret' = r
           /\ invocations' = invocations + r.invoked
  /\ UNCHANGED <<firm_id, base_seed, clock, command_file, monitor>>
  /\ UNCHANGED beside_loader

NextLoader == WriteCommandFile \/ RemoveCommandFile \/ Pass \/ ExecuteCustomWorkflow

SpecLoader == InitLoader /\ [][NextLoader]_vars

\* monitor_command_file(): the loop has started, last_modified = 0
InitMonitor ==
  /\ firm_id = <<81, 88, 82>>
  /\ base_seed = _generate_base_seed(firm_id)
  /\ clock = ClockStart
  /\ op = "init"
  /\ args = NoneVal
  /\ ret = NoneVal
  /\ command_file = NoneVal
  /\ last_modified = 0
  /\ monitor_pc = "check"
  /\ invocations = 0
  /\ executed = <<>>
  /\ unseen = FALSE
  /\ ThreadsIdle
  /\ ResolverIdle
  /\ DistributorIdle
  /\ GithubIdle

\* if self.check_command_file():
MonitorCheck ==
  /\ monitor_pc = "check"
  /\ monitor_pc' = IF check_command_file(command_file) THEN "stat" ELSE "sleep"
  /\ UNCHANGED <<firm_id, base_seed, clock, op, args, ret>>
  /\ UNCHANGED <<command_file, invocations, last_modified, executed, unseen>>
  /\ UNCHANGED beside_loader

\* current_modified = self.command_file.stat().st_mtime, which raises
\* FileNotFoundError when the file was removed since the check, and
\* if current_modified > last_modified: the call of execute_custom_workflow
\* and, when it returns, last_modified = current_modified
MonitorStat ==
  /\ monitor_pc = "stat"
  /\ IF command_file.none
     THEN /\ monitor_pc' = "raised"
          /\ UNCHANGED <<op, args, ret, invocations, last_modified, executed, unseen>>
     ELSE LET current_modified == command_file.val.st_mtime
          IN  IF current_modified > last_modified
              THEN \E readable \in BOOLEAN, outcome \in WorkflowOutcomes,
                      mkdir_ok \in BOOLEAN, write_ok \in BOOLEAN :
                     LET r == execute_custom_workflow(command_file, readable, outcome,
                                                      mkdir_ok, write_ok, clock)
                     IN  /\ op' = "execute"
                         /\ args' = [file |-> command_file, readable |-> readable,
                                     outcome |-> outcome,
                                     mkdir_ok |-> mkdir_ok, write_ok |-> write_ok]
                         /\ ret' = r
                         /\ invocations' = invocations + r.invoked
                         /\ executed' = Append(executed, current_modified)
                         /\ unseen' = FALSE
                         /\ IF r.result.exc = "none"
                            THEN /\ last_modified' = current_modified
                                 /\ monitor_pc' = "sleep"
                            ELSE /\ last_modified' = last_modified
                                 /\ monitor_pc' = "raised"
              ELSE /\ monitor_pc' = "sleep"
                   /\ UNCHANGED <<op, args, ret, invocations, last_modified, executed, unseen>>
  /\ UNCHANGED <<firm_id, base_seed, clock, command_file>>
  /\ UNCHANGED beside_loader

\* time.sleep(interval) returns
MonitorSleep ==
  /\ monitor_pc = "sleep"
  /\ monitor_pc' = "check"
  /\ UNCHANGED <<firm_id, base_seed, clock, op, args, ret>>
  /\ UNCHANGED <<command_file, invocations, last_modified, executed, unseen>>
  /\ UNCHANGED beside_loader

\* except KeyboardInterrupt: Ctrl+C stops the monitor
MonitorInterrupt ==
  /\ monitor_pc \in {"check", "stat", "sleep"}
  /\ monitor_pc' = "stopped"
  /\ UNCHANGED <<firm_id, base_seed, clock, op, args, ret>>
  /\ UNCHANGED <<command_file, invocations, last_modified, executed, unseen>>
  /\ UNCHANGED beside_loader

\* a step of the loop of monitor_command_file
MonitorStep == MonitorCheck \/ MonitorStat \/ MonitorSleep

NextMonitor ==
  \/ WriteCommandFile
  \/ RemoveCommandFile
  \/ Pass
  \/ MonitorCheck
  \/ MonitorStat
  \/ MonitorSleep
  \/ MonitorInterrupt

\* the loop keeps running until it is interrupted or raises: time.sleep
\* returns and every statement of the loop ends
SpecMonitor == InitMonitor /\ [][NextMonitor]_vars /\ WF_vars(MonitorStep)

----------------------------------------------------------------------------
(* Properties of generation: checked under Spec *)

\* the timestamp and the entropy a recorded generate call must have used
IssuedTimestamp(call) == IF call.timestamp.none THEN call.now ELSE call.timestamp.val
HasDash(s) == \E i \in 1..Len(s) : s[i] = Dash

\* C1 as stated: for every identifier (also one containing '-') and every
\* integer timestamp (or the clock's value), validating the key that generate
\* returned gives valid = true, the codec's identifier and the timestamp used.
C1_RoundTripAnyInput ==
  (op = "validate" /\ ~args.issued.none) =>
     /\ ret.exc = "none"
     /\ ret.value.valid
     /\ ret.value.firm_id = firm_id
     /\ ret.value.timestamp = IssuedTimestamp(args.issued.val)

\* C1 as amended: the round trip holds for every identifier without '-' and
\* every timestamp >= 0 (up to the last second datetime.fromtimestamp
\* converts), supplied or read from the clock.
C1_RoundTrip ==
  (/\ op = "validate"
   /\ ~args.issued.none
   /\ ~HasDash(firm_id)
   /\ IssuedTimestamp(args.issued.val) >= 0) =>
     /\ ret.exc = "none"
     /\ ret.value.valid
     /\ ret.value.firm_id = firm_id
     /\ ret.value.timestamp = IssuedTimestamp(args.issued.val)

\* a key generated with the clock's two-digit value, for the firm "F", has
\* been validated and accepted
C1_Witness ==
  /\ op = "validate"
  /\ ~args.issued.none
  /\ args.issued.val.timestamp.none
  /\ args.issued.val.now >= 10
  /\ firm_id = <<70>>
  /\ ret.exc = "none"
  /\ ret.value.valid
  /\ ret.value.timestamp = args.issued.val.now

\* the digest field of a generated key: the 16 characters after "marker-"
DigestOf(key) == SubSeq(key, Len(GLOBE_EMOJI) + 2, Len(GLOBE_EMOJI) + 17)

\* C2: every key generate returns is marker + '-' + digest + '-' + decimal
\* timestamp + '-' + identifier, the digest being 16 uppercase hexadecimal
\* digits: the first 16 of the SHA-256 hex digest of the joined components,
\* uppercased.
C2_KeyLayout ==
  (op = "generate") =>
     /\ Len(ret) >= Len(GLOBE_EMOJI) + 17
     /\ LET ts      == IssuedTimestamp(args)
            entropy == IF args.additional_entropy.none \/ args.additional_entropy.val = <<>>
                       THEN args.rnd ELSE args.additional_entropy.val
            digest  == DigestOf(ret)
            hex     == sha256_hexdigest(encode_utf8(
                         base_seed \o str_int(ts) \o firm_id \o str_int(HEX_VALUE) \o entropy))
        IN  /\ ret = GLOBE_EMOJI \o <<Dash>> \o digest \o <<Dash>> \o str_int(ts)
                       \o <<Dash>> \o firm_id
            /\ Len(digest) = 16
            /\ \A i \in 1..16 : digest[i] \in HexUpperChars
            /\ \A i \in 1..16 : digest[i] = (IF hex[i] \in 97..102 THEN hex[i] - 32 ELSE hex[i])

\* a key was generated for the firm "A-B" with a negative timestamp and a
\* digest that holds a letter
C2_Witness ==
  /\ op = "generate"
  /\ firm_id = <<65, Dash, 66>>
  /\ ~args.timestamp.none
  /\ args.timestamp.val < 0
  /\ \E i \in 1..16 : DigestOf(ret)[i] \in 65..70

\* C10: generate_key_batch(n) returns exactly n keys (none for n <= 0), no two
\* of them equal, with the clock standing still during the call and whatever
\* the random source returns.
C10_BatchDistinct ==
  (op = "batch") =>
     /\ Len(ret) = (IF args.count > 0 THEN args.count ELSE 0)
     /\ \A i, j \in 1..Len(ret) : i # j => ret[i] # ret[j]

\* a batch of three keys was generated while the random source returned the
\* same value three times
C10_Witness ==
  /\ op = "batch"
  /\ args.count = 3
  /\ Len(ret) = 3
  /\ \A i, j \in 1..3 : args.rnds[i] = args.rnds[j]

\* the integer in the third field of a key whose timestamp is not negative
TimestampOf(key) == DigitsValue(int_str(split(key, Dash)[3]).digits)

\* the keys of a batch carry base_time, base_time + 1, ... as third field, in
\* list order, base_time being the one clock value the call read
BatchTimestamps ==
  \A k \in 1..Len(ret) :
     /\ Len(split(ret[k], Dash)) >= 3
     /\ split(ret[k], Dash)[3] = str_int(args.now + (k - 1))
     /\ k > 1 => TimestampOf(ret[k]) > TimestampOf(ret[k - 1])

\* validate_combsec_key of the same generator accepts every key of the batch,
\* with the timestamp the key carries
BatchAccepted ==
  \A k \in 1..Len(ret) :
     LET v == validate_combsec_key(Some(ret[k]))
     IN  /\ v.exc = "none"
         /\ v.value.valid
         /\ v.value.timestamp = args.now + (k - 1)
         /\ v.value.firm_id = firm_id

\* C11 as stated: the i-th key of a batch carries the timestamp base_time + i
\* and every key of the batch is accepted by validate of the same generator,
\* whatever the generator's identifier is.
C11_BatchAcceptedAnyIdentifier ==
  (op = "batch") => (BatchTimestamps /\ BatchAccepted)

\* C11 as amended: the i-th key of a batch carries the timestamp base_time + i,
\* for every identifier; every key of the batch is accepted by validate when
\* the identifier holds no '-'.
C11_BatchTimestamps ==
  (op = "batch") =>
     /\ BatchTimestamps
     /\ ~HasDash(firm_id) => BatchAccepted

\* a batch of three keys for the firm "F" was generated at the clock value 9:
\* its timestamps are 9, 10 and 11
C11_Witness ==
  /\ op = "batch"
  /\ firm_id = <<70>>
  /\ args.now = 9
  /\ Len(ret) = 3
  /\ split(ret[3], Dash)[3] = <<49, 49>>
  /\ validate_combsec_key(Some(ret[3])).value.valid

\* C12: a call of generate with a supplied timestamp (0 included) and a
\* supplied additional entropy (the empty string included) uses both verbatim
\* and consults neither the clock nor the random source: the key is the one
\* computed from (identifier, timestamp, entropy), whatever the clock shows
\* and the random source would return.
C12_SuppliedUsedVerbatim ==
  (op = "generate" /\ ~args.timestamp.none /\ ~args.additional_entropy.none) =>
     /\ ret = Join(<<GLOBE_EMOJI,
                     upper(combsec_hash(firm_id, base_seed, args.timestamp.val,
                                        args.additional_entropy.val)),
                     str_int(args.timestamp.val),
                     firm_id>>)
     /\ \A now \in ClockValues, rnd \in TokenHex8 :
           generate_combsec_key(firm_id, base_seed, args.timestamp,
                                args.additional_entropy, now, rnd) = ret

\* C16: the marker is the one code point U+1F310: every generated key starts
\* with that code point followed by '-', the marker constant that validate
\* compares against is that code point, its UTF-8 encoding is UTF8_BYTES
\* (F0 9F 8C 90) and its code point is HEX_VALUE.
C16_MarkerIsU1F310 ==
  (op = "generate") =>
     /\ Len(ret) >= 2
     /\ ret[1] = HEX_VALUE
     /\ ret[2] = Dash
     /\ GLOBE_EMOJI = <<HEX_VALUE>>
     /\ encode_utf8(GLOBE_EMOJI) = UTF8_BYTES
     /\ validate_combsec_key(Some(<<HEX_VALUE, Dash>> \o SubSeq(ret, Len(GLOBE_EMOJI) + 2, Len(ret))))
          # Returned([valid |-> FALSE, error |-> "Invalid emoji component"])

\* C26: no silent mis-parse. Whenever validating a key that generate returned
\* gives valid = true, the timestamp and the identifier of the result are
\* those used at generation; a key generated for an identifier containing
\* '-' or with a negative timestamp is rejected.
C26_NoSilentMisparse ==
  (op = "validate" /\ ~args.issued.none) =>
     /\ ret.exc = "none"
     /\ ret.value.valid =>
          /\ ret.value.firm_id = firm_id
          /\ ret.value.timestamp = IssuedTimestamp(args.issued.val)
     /\ (HasDash(firm_id) \/ IssuedTimestamp(args.issued.val) < 0) =>
          ~ret.value.valid

\* a key generated for the identifier "A-B", and one generated for "F" with
\* the timestamp -5, was validated and rejected
C26_Witness ==
  /\ op = "validate"
  /\ ~args.issued.none
  /\ \/ firm_id = <<65, Dash, 66>> /\ IssuedTimestamp(args.issued.val) = 12
     \/ firm_id = <<70>> /\ IssuedTimestamp(args.issued.val) = 0 - 5
  /\ ~ret.value.valid

----------------------------------------------------------------------------
(* Properties of validation: checked under SpecValidate *)

\* the number of fields of a key: one more than its '-' characters
FieldCount(key) == Cardinality({i \in 1..Len(key) : key[i] = Dash}) + 1

Validated == op = "validate" /\ ~args.key.none
Fields == split(args.key.val, Dash)
Rejected(error) == ret = Returned([valid |-> FALSE, error |-> error])

\* C3: a string that does not split into exactly 4 fields is rejected with
\* the format error, and the result holds nothing but the flag and the error.
C3_InvalidFormat ==
  (Validated /\ FieldCount(args.key.val) # 4) =>
     /\ Rejected("Invalid key format")
     /\ DOMAIN ret.value = {"valid", "error"}

\* a key of 5 fields that starts like a well-formed one was rejected
C3_Witness ==
  /\ Validated
  /\ FieldCount(args.key.val) = 5
  /\ Fields[1] = GLOBE_EMOJI
  /\ Len(Fields[2]) = 16
  /\ Rejected("Invalid key format")

\* C4: a 4-field key whose first field is not the marker is rejected with
\* the marker error, whatever the other fields are.
C4_InvalidMarker ==
  (Validated /\ FieldCount(args.key.val) = 4 /\ Fields[1] # GLOBE_EMOJI) =>
     Rejected("Invalid emoji component")

\* a key with another emoji, a 16-character digest and an integer timestamp
\* was rejected
C4_Witness ==
  /\ Validated
  /\ FieldCount(args.key.val) = 4
  /\ Fields[1] = <<128640>>
  /\ Len(Fields[2]) = 16
  /\ Fields[3] = <<55>>
  /\ Rejected("Invalid emoji component")

\* C5: a 4-field key with the marker whose second field is not 16 characters
\* long (shorter, longer, empty) is rejected with the digest length error.
C5_InvalidDigestLength ==
  (/\ Validated
   /\ FieldCount(args.key.val) = 4
   /\ Fields[1] = GLOBE_EMOJI
   /\ Len(Fields[2]) # 16) =>
     Rejected("Invalid hex key length")

\* a key with a digest of 17 characters was rejected
C5_Witness ==
  /\ Validated
  /\ FieldCount(args.key.val) = 4
  /\ Fields[1] = GLOBE_EMOJI
  /\ Len(Fields[2]) = 17
  /\ Fields[3] = <<55>>
  /\ Rejected("Invalid hex key length")

\* C6: a 4-field key with the marker and a 16-character digest whose third
\* field int() cannot parse is rejected with the timestamp error.
C6_InvalidTimestamp ==
  (/\ Validated
   /\ FieldCount(args.key.val) = 4
   /\ Fields[1] = GLOBE_EMOJI
   /\ Len(Fields[2]) = 16
   /\ int_str(Fields[3]).exc = "ValueError") =>
     Rejected("Invalid timestamp")

\* a key with the third field "1__0" was rejected
C6_Witness ==
  /\ Validated
  /\ FieldCount(args.key.val) = 4
  /\ Fields[1] = GLOBE_EMOJI
  /\ Len(Fields[2]) = 16
  /\ Fields[3] = <<49, Underscore, Underscore, 48>>
  /\ Rejected("Invalid timestamp")

\* C7: validate always returns a result: a dictionary with the flag valid and,
\* when that is false, an error; no exception leaves it, and a failure of an
\* internal step that no check foresees is returned as the generic parsing
\* error with the exception's text.
C7_Total ==
  (op = "validate") =>
     /\ ret.exc = "none"
     /\ "valid" \in DOMAIN ret.value
     /\ ret.value.valid \in BOOLEAN
     /\ ~ret.value.valid => "error" \in DOMAIN ret.value
     /\ args.key.none =>
          Rejected("Parsing error: 'NoneType' object has no attribute 'split'")
     /\ (~args.key.none /\ validate_try(args.key).exc # "none") =>
          Rejected("Parsing error: " \o validate_try(args.key).text)

\* a key whose timestamp is beyond time_t was answered with the generic error
C7_Witness ==
  /\ Validated
  /\ FieldCount(args.key.val) = 4
  /\ Fields[3] = Repeat(49, 20)
  /\ Rejected("Parsing error: timestamp out of range for platform time_t")

\* the int a timestamp field denotes is one datetime.fromtimestamp converts
Convertible(field) ==
  /\ int_str(field).exc = "none"
  /\ ~DecLess(LastSecondOfYear9999, int_str(field).digits)

WellFormed ==
  /\ Validated
  /\ FieldCount(args.key.val) = 4
  /\ Fields[1] = GLOBE_EMOJI
  /\ Len(Fields[2]) = 16

AcceptedUnchanged ==
  /\ ret.exc = "none"
  /\ ret.value.valid
  /\ DOMAIN ret.value = {"valid", "emoji", "hex_key", "timestamp", "datetime",
                         "firm_id", "unicode_codepoint"}
  /\ ret.value.emoji = GLOBE_EMOJI
  /\ ret.value.hex_key = Fields[2]
  /\ ret.value.timestamp \in Nat
  /\ str_int(ret.value.timestamp) = int_str(Fields[3]).digits
  /\ ret.value.firm_id = Fields[4]

\* C8 as stated: a key of 4 fields with the marker, a 16-character second
\* field and a third field that parses as an integer of any magnitude is
\* valid, and the result holds the fields unchanged.
C8_StructureSufficesAnyMagnitude ==
  (WellFormed /\ int_str(Fields[3]).exc = "none") => AcceptedUnchanged

\* C8 as amended: such a key is valid when the integer is one that
\* datetime.fromtimestamp converts (at most 253402300799); the result then
\* holds the marker, the digest, the integer, a datetime and the fourth field.
C8_StructureSuffices ==
  (WellFormed /\ Convertible(Fields[3])) => AcceptedUnchanged

\* a key with the timestamp field " 7 ", a digest that is not hexadecimal and
\* an empty identifier was accepted with the timestamp 7
C8_Witness ==
  /\ WellFormed
  /\ Fields[2] = Repeat(103, 16)
  /\ Fields[3] = <<32, 55, 32>>
  /\ Fields[4] = <<>>
  /\ AcceptedUnchanged
  /\ ret.value.timestamp = 7

\* the 16-character second fields the model draws
Digests16 == {d \in DigestFields : Len(d) = 16}

\* C9: two keys that differ only in the content of their 16-character second
\* field get the same validity flag, timestamp and identifier (and the same
\* error): the digest's content plays no part.
C9_DigestNotAuthenticated ==
  (Validated /\ FieldCount(args.key.val) = 4 /\ Len(Fields[2]) = 16) =>
     \A d \in Digests16 :
        LET other == validate_combsec_key(Some(Join(<<Fields[1], d, Fields[3], Fields[4]>>)))
        IN  /\ other.exc = ret.exc
            /\ other.value.valid = ret.value.valid
            /\ ret.value.valid =>
                 /\ other.value.timestamp = ret.value.timestamp
                 /\ other.value.firm_id = ret.value.firm_id
            /\ ~ret.value.valid => other.value.error = ret.value.error

\* a key whose digest is 16 times 'g' (no hexadecimal digit) was accepted
C9_Witness ==
  /\ WellFormed
  /\ Fields[2] = Repeat(103, 16)
  /\ Fields[3] = <<49, Underscore, 48>>
  /\ Fields[4] = <<70>>
  /\ ret.exc = "none"
  /\ ret.value.valid
  /\ ret.value.timestamp = 10

\* C17 as stated: validate("not-a-valid-key") is rejected with the format
\* error.
C17_ScenarioFormatError ==
  (Validated /\ args.key.val = NotAValidKey) => Rejected("Invalid key format")

\* C17 as amended: "not-a-valid-key" has 4 fields ("not", "a", "valid",
\* "key"), so it passes the format check and is rejected with the marker
\* error, its first field not being the marker.
C17_ScenarioMarkerError ==
  (Validated /\ args.key.val = NotAValidKey) =>
     /\ FieldCount(args.key.val) = 4
     /\ Rejected("Invalid emoji component")

\* "not-a-valid-key" was validated and rejected
C17_Witness ==
  /\ Validated
  /\ args.key.val = NotAValidKey
  /\ Fields = <<(<<110, 111, 116>>), (<<97>>), (<<118, 97, 108, 105, 100>>), (<<107, 101, 121>>)>>
  /\ ~ret.value.valid

\* C25: validate applies its checks in the order field count, marker, digest
\* length, timestamp and reports the first that fails: each error is returned
\* exactly when the checks before it pass and its own check fails, whatever
\* the later fields hold, and a key is accepted only when all four pass.
C25_FirstFailureReported ==
  Validated =>
     /\ ret.exc = "none"
     /\ Rejected("Invalid key format") <=> FieldCount(args.key.val) # 4
     /\ Rejected("Invalid emoji component") <=>
          (FieldCount(args.key.val) = 4 /\ Fields[1] # GLOBE_EMOJI)
     /\ Rejected("Invalid hex key length") <=>
          (/\ FieldCount(args.key.val) = 4
           /\ Fields[1] = GLOBE_EMOJI
           /\ Len(Fields[2]) # 16)
     /\ Rejected("Invalid timestamp") =>
          (WellFormed /\ ~Convertible(Fields[3]))
     /\ (WellFormed /\ int_str(Fields[3]).exc = "ValueError") =>
          Rejected("Invalid timestamp")
     /\ ret.value.valid => (WellFormed /\ Convertible(Fields[3]))

\* a key with another emoji, a digest of 15 characters and the timestamp "x"
\* was rejected with the marker error
C25_Witness ==
  /\ Validated
  /\ FieldCount(args.key.val) = 4
  /\ Fields[1] = <<128640>>
  /\ Len(Fields[2]) = 15
  /\ Fields[3] = <<120>>
  /\ Rejected("Invalid emoji component")

----------------------------------------------------------------------------
(* Properties of the export: checked under SpecExport *)

\* C14: export_key_data(keys) raises nothing and returns a record whose
\* total_keys is the number of keys passed and whose list holds one entry per
\* key, in the order passed, pairing the key with the result validate returns
\* for it; a key that is not valid is kept, with its valid = false result, and
\* the record's firm_id is the generator's.
C14_Export ==
  (op = "export") =>
     /\ ret.exc = "none"
     /\ ret.value.total_keys = Len(args.keys)
     /\ Len(ret.value.keys) = Len(args.keys)
     /\ ret.value.firm_id = firm_id
     /\ \A i \in 1..Len(args.keys) :
           /\ ret.value.keys[i].key = args.keys[i]
           /\ ret.value.keys[i].validation = validate_combsec_key(args.keys[i]).value
           /\ (args.keys[i].none \/ FieldCount(args.keys[i].val) # 4
                 \/ split(args.keys[i].val, Dash)[1] # GLOBE_EMOJI) =>
                ~ret.value.keys[i].validation.valid

\* a key of 2 fields followed by a well-formed key was exported: both are in
\* the list, in that order, the first with valid = false
C14_Witness ==
  /\ op = "export"
  /\ Len(args.keys) = 2
  /\ args.keys[1] = Some(<<65, Dash, 55>>)
  /\ ret.value.total_keys = 2
  /\ ret.value.keys[1].key = Some(<<65, Dash, 55>>)
  /\ ~ret.value.keys[1].validation.valid
  /\ ret.value.keys[2].validation.valid

----------------------------------------------------------------------------
(* Properties of concurrent calls: checked under SpecThreads *)

\* what the call of frame f returns when it runs alone, with the clock value
\* and the random values f recorded
Alone(f) ==
  LET c == f.call.val
  IN  CASE c.name = "generate" ->
             generate_combsec_key(firm_id, base_seed, c.timestamp, c.additional_entropy,
                                  IF f.now.none THEN clock ELSE f.now.val, f.rnds[1])
        [] c.name = "validate" -> validate_combsec_key(c.key)
        [] c.name = "batch" ->
             generate_key_batch(firm_id, base_seed, c.count, f.now.val, f.rnds)
        [] c.name = "export" -> export_key_data(firm_id, c.keys, f.now.val)

ReturnsAsAlone == \A t \in Threads : pc[t] = "returned" => frame[t].result.val = Alone(frame[t])

\* C13: no step of generate, validate, generate_key_batch or export_key_data
\* changes firm_id or base_seed, and under every interleaving of the calls of
\* two threads on one generator each call returns what it returns when run
\* alone with the same clock and random values.
C13_FixedAndThreadSafe ==
  /\ []ReturnsAsAlone
  /\ [][firm_id' = firm_id /\ base_seed' = base_seed]_vars

\* thread 1 returned from a generate that read the clock at 10 while thread 2
\* is in the middle of a generate with the supplied timestamp 0
C13_Witness ==
  /\ pc[1] = "returned"
  /\ frame[1].call.val.name = "generate"
  /\ frame[1].now = Some(10)
  /\ pc[2] = "gen_key"
  /\ frame[2].timestamp = Some(0)
  /\ frame[1].result.val = Alone(frame[1])

----------------------------------------------------------------------------
(* Properties of generate_combsec_key_u1f310: checked under SpecApi *)

\* the key the function returned has the supplied timestamp in decimal as
\* third field and the firm id as fourth field
ApiFields ==
  (op = "api" /\ ~args.timestamp.none) =>
     /\ FieldCount(ret) = 4
     /\ split(ret, Dash)[3] = str_int(args.timestamp.val)
     /\ split(ret, Dash)[4] = args.firm_id

\* the generator constructed apart accepts the key, with the timestamp used
\* and the firm id
ApiAccepted ==
  (op = "validate") =>
     /\ ret.exc = "none"
     /\ ret.value.valid
     /\ ret.value.timestamp = IssuedTimestamp(args.issued.val)
     /\ ret.value.firm_id = args.issued.val.firm_id

\* the function returns what generate_combsec_key of a generator constructed
\* for the firm id returns, the entropy being absent
ApiAsGenerator ==
  (op = "api") =>
     ret = generate_combsec_key(firm_id, base_seed, args.timestamp, NoneVal, args.now, args.rnd)

\* C15 as stated: for every firm id and timestamp, the key of
\* generate_combsec_key_u1f310 is the key of a generator constructed for that
\* firm id, has the decimal timestamp as third and the firm id as fourth field,
\* and is accepted by a generator constructed apart for the same firm id.
C15_ApiAnyInput == ApiAsGenerator /\ ApiFields /\ ApiAccepted

\* C15 as amended: the same, for a firm id without '-' and a timestamp >= 0;
\* the key is the generator's key for every firm id and timestamp.
C15_Api ==
  /\ ApiAsGenerator
  /\ (~HasDash(firm_id) /\ (op = "api" => IssuedTimestamp(args) >= 0)) => ApiFields
  /\ (~HasDash(firm_id) /\ (op = "validate" => IssuedTimestamp(args.issued.val) >= 0))
       => ApiAccepted

\* the key of generate_combsec_key_u1f310("F", 1234567) was accepted by the
\* other generator with the timestamp 1234567
C15_Witness ==
  /\ op = "validate"
  /\ args.issued.val.firm_id = <<70>>
  /\ args.issued.val.timestamp = Some(1234567)
  /\ ret.value.valid
  /\ ret.value.timestamp = 1234567
  /\ ret.value.firm_id = <<70>>

----------------------------------------------------------------------------
(* Properties of the resolvers: checked under SpecResolvers *)

AuthOps == {"process_notebook", "create_notion_landing_page", "configure_allocator_access"}

\* the auth argument carries a session key that is in the active sessions
CarriesActiveKey(auth, sessions) ==
  ~auth.session_key.none /\ auth.session_key.val \in DOMAIN sessions

\* C18: process_notebook, create_notion_landing_page and
\* configure_allocator_access raise an error and carry out nothing whenever
\* the auth argument carries no session key of the active sessions: a wrong
\* key, a refreshed key, the empty key or no key at all.
C18_AuthRequired ==
  [][(op' \in AuthOps /\ ~CarriesActiveKey(args'.auth, active_sessions')) =>
       (ret'.exc = "Exception" /\ effects' = effects)]_vars

\* C19: a session key that generate_combsec_key returned is accepted by
\* validate_combsec_key, whatever is called in between, until
\* refresh_combsec_key is called with it; from then on it is rejected, and the
\* key the refresh returned is accepted; a key never issued is rejected.
C19_SessionLifecycle ==
  /\ \A k \in SessionKeys :
       resolver_validate_combsec_key(active_sessions, k) = (k \in issued /\ k \notin retired)
  /\ (op = "validate_key") => ret.value = (args.session_key \in issued \ retired)
  /\ (op = "refresh") =>
       /\ resolver_validate_combsec_key(active_sessions, ret.value.session_key)
       /\ args.current_key \in retired =>
            ~resolver_validate_combsec_key(active_sessions, args.current_key)

\* a key that was issued and then refreshed was validated and rejected, while
\* the key the refresh returned is still active
C19_Witness ==
  /\ op = "validate_key"
  /\ args.session_key \in retired
  /\ ret.value = FALSE
  /\ issued \ retired # {}
  /\ DOMAIN active_sessions = issued \ retired

----------------------------------------------------------------------------
(* Properties of the distributor: checked under SpecDistributor *)

\* the export holds, for every registered partner and for no one else, the
\* stored record with "REDACTED_FOR_SECURITY" as key, and no value of it is
\* a key of the generator
ExportRedacted ==
  (op = "export_registry") =>
     /\ ret.exc = "none"
     /\ ret.value.total_partners = Cardinality(DOMAIN firm_partners)
     /\ DOMAIN ret.value.partners = DOMAIN firm_partners
     /\ ret.value.firm_id \notin PartnerKeys
     /\ \A pid \in DOMAIN firm_partners :
          LET exported == ret.value.partners[pid]
          IN  /\ exported.combsec_key = REDACTED_FOR_SECURITY
              /\ DOMAIN exported = DOMAIN firm_partners[pid]
              /\ \A f \in DOMAIN exported \ {"combsec_key"} :
                   exported[f] = firm_partners[pid][f]
              /\ pid \notin PartnerKeys
              /\ exported.id \notin PartnerKeys
              /\ exported.email.none \/ exported.email.val \notin PartnerKeys
              /\ \A i \in 1..Len(exported.algorithms_received) :
                   exported.algorithms_received[i] \notin PartnerKeys

\* C20: export_partner_registry returns one record per registered partner
\* with the key replaced by REDACTED_FOR_SECURITY, so that no key of a partner
\* is in the export, and total_partners is the number of registered partner
\* ids; the call leaves the registry as it is: every partner keeps its key,
\* its status and its list of received packages.
C20_ExportRedacted ==
  /\ []ExportRedacted
  /\ [][op' = "export_registry" => firm_partners' = firm_partners]_vars

\* two partners are registered, one of them has received a package, and the
\* registry was exported: both keys are still stored
C20_Witness ==
  /\ op = "export_registry"
  /\ DOMAIN firm_partners = PartnerIds
  /\ firm_partners[<<65>>].status = "active"
  /\ firm_partners[<<65>>].algorithms_received = <<(<<80>>)>>
  /\ \A pid \in PartnerIds : firm_partners[pid].combsec_key \in PartnerKeys
  /\ ret.value.total_partners = 2
  /\ ret.value.partners[<<65>>].status = "active"

----------------------------------------------------------------------------
(* Properties of the distribution: checked under SpecDistribution *)

Distributed == op \in {"distribute", "send_urgent_update"}

\* the positions of a partner among the attempts of a distribution
AttemptsOf(log, pid) == {i \in 1..Len(log) : log[i] = pid}

\* the state after a call of send_urgent_update: the package is the last of
\* the queue, and every registered partner was attempted, once
UrgentSent ==
  (op = "send_urgent_update") =>
     /\ ret.exc = "none"
     /\ urgent_update_queue[Len(urgent_update_queue)] = args.package
     /\ ret.value.package_id = args.package.package_id
     /\ ret.value.total_partners = Cardinality(DOMAIN firm_partners)
     /\ DOMAIN ret.value.partner_results = DOMAIN firm_partners
     /\ \A pid \in DOMAIN firm_partners : Cardinality(AttemptsOf(attempts, pid)) = 1

UrgentQueued ==
  /\ Len(urgent_update_queue) = urgent_calls
  /\ \A i \in 1..Len(urgent_update_queue) :
       /\ urgent_update_queue[i].is_urgent
       /\ urgent_update_queue[i].algorithm_name = URGENT_UPDATE
  /\ (op = "status") => ret.value.urgent_updates_queued = urgent_calls

\* C21: each send_urgent_update call appends exactly one package, urgent and
\* named URGENT_UPDATE, to the queue and attempts every registered partner,
\* whether or not a transmission succeeds; no other call changes the queue, so
\* it is never shortened, and the urgent_updates_queued of the status report
\* is the number of send_urgent_update calls made.
C21_UrgentQueue ==
  /\ [](UrgentSent /\ UrgentQueued)
  /\ [][IF urgent_calls' # urgent_calls
        THEN /\ urgent_calls' = urgent_calls + 1
             /\ op' = "send_urgent_update"
             /\ urgent_update_queue' = Append(urgent_update_queue, args'.package)
        ELSE urgent_update_queue' = urgent_update_queue]_vars

\* a second urgent update was sent to two partners, none of which
\* acknowledged it, and the status was asked for
C21_Witness ==
  /\ op = "status"
  /\ urgent_calls = 2
  /\ Len(urgent_update_queue) = 2
  /\ ret.value.urgent_updates_queued = 2
  /\ DOMAIN firm_partners = PartnerIds
  /\ \A pid \in PartnerIds : firm_partners[pid].status = "connection_failed"
  /\ Len(attempts) = 2

\* C27 as stated: distribute_algorithm_instant always returns a result, in
\* which the successful and the failed transmissions add up to total_partners,
\* the number of targets, whatever the package and the targets are.
C27_AlwaysCounts ==
  (op = "distribute") =>
     /\ ret.exc = "none"
     /\ ret.value.total_partners = Len(targets_of(args.target_partners, partner_order))
     /\ ret.value.successful_transmissions + ret.value.failed_transmissions
          = ret.value.total_partners

\* the priorities of the attempts do not decrease, and attempts of equal
\* priority are in the order of the targets: the attempts are the targets
\* rearranged by a permutation that keeps that order
StableByPriority(log, targets) ==
  /\ Len(log) = Len(targets)
  /\ \A i, j \in 1..Len(log) :
       i < j => firm_partners[log[i]].priority <= firm_partners[log[j]].priority
  /\ \E p \in [1..Len(log) -> 1..Len(log)] :
       /\ \A i, j \in 1..Len(log) : i # j => p[i] # p[j]
       /\ \A i \in 1..Len(log) : log[i] = targets[p[i]]
       /\ \A i, j \in 1..Len(log) :
            (i < j /\ firm_partners[log[i]].priority = firm_partners[log[j]].priority)
              => p[i] < p[j]

PartnerStatuses == {"registered", "active", "connection_failed"}

\* what every state shows of the partners: a status of the three, no package
\* and no contact while registered, and the count of the status report
StatusInvariant ==
  /\ \A pid \in DOMAIN firm_partners :
       /\ firm_partners[pid].status \in PartnerStatuses
       /\ firm_partners[pid].status = "registered" =>
            /\ firm_partners[pid].algorithms_received = <<>>
            /\ firm_partners[pid].last_contact.none
       /\ firm_partners[pid].status = "active" =>
            /\ firm_partners[pid].algorithms_received # <<>>
            /\ ~firm_partners[pid].last_contact.none
  /\ (op = "status") =>
       ret.value.active_partners =
         Cardinality({pid \in DOMAIN firm_partners : firm_partners[pid].status = "active"})

\* what a call does to the record of a partner: a registration makes it
\* registered; a distribution makes each partner it attempted active when
\* the last attempt succeeded and connection_failed when it did not, appends
\* the package id once per successful attempt and sets last_contact on
\* success only; nothing else changes a record
StatusStep ==
  /\ (op' = "register") =>
       /\ firm_partners'[args'.partner_id].status = "registered"
       /\ \A pid \in DOMAIN firm_partners \ {args'.partner_id} :
            firm_partners'[pid] = firm_partners[pid]
  /\ (op' = "status") => firm_partners' = firm_partners
  /\ (op' \in {"distribute", "send_urgent_update"}) =>
       /\ DOMAIN firm_partners' = DOMAIN firm_partners
       /\ \A pid \in DOMAIN firm_partners :
            LET tried     == AttemptsOf(attempts', pid)
                succeeded == {i \in tried : args'.acks[i]}
                last      == CHOOSE i \in tried : \A j \in tried : j <= i
                before    == firm_partners[pid]
                after     == firm_partners'[pid]
            IN  IF tried = {}
                THEN after = before
                ELSE /\ after.status = (IF args'.acks[last] THEN "active"
                                        ELSE "connection_failed")
                     /\ ret'.value.partner_results[pid].success = args'.acks[last]
                     /\ Len(after.algorithms_received)
                          = Len(before.algorithms_received) + Cardinality(succeeded)
                     /\ \A i \in 1..Len(after.algorithms_received) :
                          after.algorithms_received[i] =
                            (IF i <= Len(before.algorithms_received)
                             THEN before.algorithms_received[i]
                             ELSE args'.package.package_id)
                     /\ succeeded = {} => after.last_contact = before.last_contact
                     /\ succeeded # {} => ~after.last_contact.none
                     /\ \A f \in DOMAIN before \ {"status", "algorithms_received", "last_contact"} :
                          after[f] = before[f]

\* C29: the status of every registered partner is one of registered, active,
\* connection_failed; it is registered from the registration to the first
\* attempt, and after an attempt it is active if and only if the attempt
\* succeeded; only a successful attempt appends the package id to
\* algorithms_received and sets last_contact; active_partners of the status
\* report is the number of partners whose status is active.
C29_PartnerStatus == []StatusInvariant /\ [][StatusStep]_vars

\* a partner that had received a package was attempted again without
\* success: its status is connection_failed, the package and the contact stay
C29_Witness ==
  /\ Distributed
  /\ ret.exc = "none"
  /\ \E pid \in DOMAIN firm_partners :
       /\ AttemptsOf(attempts, pid) # {}
       /\ ~ret.value.partner_results[pid].success
       /\ firm_partners[pid].status = "connection_failed"
       /\ firm_partners[pid].algorithms_received # <<>>
       /\ ~firm_partners[pid].last_contact.none

----------------------------------------------------------------------------
(* Properties of format_for_platform: checked under SpecFormat *)

\* C22: for every post and every supported platform format_for_platform
\* returns a string of at most the platform's max_length characters (280 for
\* twitter, 3000 for linkedin, 5000 for github, 10000 for notion); for a
\* platform name that is not supported it raises ValueError.
C22_WithinMaxLength ==
  (op = "format") =>
     /\ args.platform_name = "twitter" => (ret.exc = "none" /\ Len(ret.value) <= 280)
     /\ args.platform_name = "linkedin" => (ret.exc = "none" /\ Len(ret.value) <= 3000)
     /\ args.platform_name = "github" => (ret.exc = "none" /\ Len(ret.value) <= 5000)
     /\ args.platform_name = "notion" => (ret.exc = "none" /\ Len(ret.value) <= 10000)
     /\ args.platform_name \notin {"twitter", "linkedin", "github", "notion"} =>
          ret.exc = "ValueError"

\* a post of 281 characters with a key was cut for twitter to a text that
\* still ends with the COMBSEC reference
C22_Witness ==
  /\ op = "format"
  /\ args.platform_name = "twitter"
  /\ args.post.title = Some(<<84>>)
  /\ args.post.content = Some(Repeat(99, 278))
  /\ args.post.hashtags = <<>>
  /\ args.post.combsec_key = Some(Repeat(107, 30))
  /\ ret.exc = "none"
  /\ Len(ret.value) <= 280
  /\ find(ret.value, combsec_line) >= 0
  /\ ret.value # untruncated(args.post, platforms.twitter)

----------------------------------------------------------------------------
(* Properties of the GitHub integrator: checked under SpecGithub *)

\* C23: the keys the GitHub integrator has returned, by successive calls of
\* generate_github_timestamped_key and inside the results of
\* export_github_key_batch, are pairwise distinct.
C23_KeysDistinct ==
  \A i, j \in 1..Len(github_keys) : i # j => github_keys[i] # github_keys[j]

----------------------------------------------------------------------------
(* Properties of the workflow loader: checked under SpecLoader *)

\* the command file of a call holds the command: it exists, it can be read
\* and its content, which is not empty, contains "loadmymainquantQXRworkflow"
HoldsCommand(call) ==
  /\ ~call.file.none
  /\ call.readable
  /\ call.file.val.content # <<>>
  /\ contains(call.file.val.content, WorkflowCommand)

\* C24: execute_custom_workflow calls the main workflow exactly once when the
\* command file exists with non-empty content that contains the command, and
\* never otherwise; it returns True only when the workflow was called and
\* returned success, and it returns False, raising nothing, when the command
\* is missing or unknown, when the workflow fails and when the workflow raises.
C24_ExecuteResult ==
  op = "execute" =>
    /\ ret.invoked = (IF HoldsCommand(args) THEN 1 ELSE 0)
    /\ ret.result = Returned(TRUE) =>
         ret.invoked = 1 /\ args.outcome = Returned(TRUE)
    /\ (~HoldsCommand(args) \/ args.outcome # Returned(TRUE)) =>
         ret.result = Returned(FALSE)

----------------------------------------------------------------------------
(* Properties of the monitor: checked under SpecMonitor *)

\* a poll of the monitor ends: the step from the stat to the sleep, or to the
\* exception
PollEnds == monitor_pc = "stat" /\ monitor_pc' # "stat" /\ monitor_pc' # "stopped"

\* the poll finds the file with a modification time greater than the recorded
FindsNewer ==
  /\ ~command_file.none
  /\ command_file.val.st_mtime > last_modified

\* the poll calls execute_custom_workflow, once
ExecutesOnce ==
  /\ ~command_file.none
  /\ executed' = Append(executed, command_file.val.st_mtime)

\* the polls execute for the first modification time found and for every
\* greater one afterwards
PollExecutes ==
  /\ PollEnds /\ FindsNewer => ExecutesOnce
  /\ PollEnds /\ ~FindsNewer => executed' = executed
  /\ ~PollEnds => executed' = executed

\* no execution twice for the same modification time
NeverTwice == \A i, j \in 1..Len(executed) : i # j => executed[i] # executed[j]

\* every change of the command file is followed by an execution, unless the
\* monitor is stopped by the user
ChangeExecuted == unseen ~> (~unseen \/ monitor_pc = "stopped")

\* C30: the monitor executes the workflow once when a poll first finds the
\* command file and once more whenever a later poll finds a modification time
\* greater than the one recorded at the last execution; never twice for the
\* same modification time, never while the file is absent; and every change
\* of the command file is eventually followed by an execution.
C30_MonitorExecutes ==
  /\ [][PollExecutes]_vars
  /\ []NeverTwice
  /\ ChangeExecuted

====
